---- MODULE Spec2Model ----
(***************************************************************************)
(* A model of the JSONLogic interpreter of this repository.                *)
(*                                                                         *)
(* The repository holds two evaluators:                                    *)
(*   - the functional one of src/jsonlogic.py (the same code is split over *)
(*     src/jsonlogic/op_function.py and src/jsonlogic/operators.py): a     *)
(*     module-level registry _op_fns, evaluate/_evaluate/maybe_evaluate,   *)
(*     the decorators op_fn and type_check, and the built-in operators;    *)
(*   - the class Evaluator of src/jsonlogic/evaluate.py: a class-level     *)
(*     registry, evaluate/_evaluate/maybe_evaluate/_evaluate_args, the     *)
(*     checker _type_check and the decorator factory Evaluator.op_fn.      *)
(* Both are modelled; the definitions of the class carry the prefix        *)
(* Evaluator_.                                                             *)
(*                                                                         *)
(* A JSON value is a record [t, v]: t is the Python class of the value and *)
(* v its content. A float is held in tenths (2.5 is 25). A dict is the     *)
(* sequence of its <<key, value>> items in insertion order. A JSONPath is  *)
(* the sequence of the '.'-separated segments of its string; the root path *)
(* is '$' (src/jsonlogic.py:111 and :163).                                 *)
(*                                                                         *)
(* The outcome of a call is a record: ok (returned or raised), val (the    *)
(* value returned), err (the exception raised), log (what was printed),    *)
(* calls (the operator implementations entered, with their arguments, in   *)
(* order) and evals (the expressions whose evaluation ended, in order).    *)
(***************************************************************************)
EXTENDS Integers, Sequences, FiniteSets, TLC

VARIABLES
    _op_fns,            \* the functional registry: operator name -> wrapper closure
    Evaluator_op_fns,   \* Evaluator._op_fns: operator name -> op_fn closure
    decorators,         \* the decorators Evaluator.op_fn has returned so far
    call,               \* the last call made on the program, with its inputs
    result,             \* its outcome
    frames              \* the loops of an evaluation in progress, one turn at a time

vars == <<_op_fns, Evaluator_op_fns, decorators, call, result, frames>>

----------------------------------------------------------------------------
(* JSON values and the Python objects passed around with them *)

JNull == [t |-> "NoneType", v |-> 0]
JBool(b) == [t |-> "bool", v |-> b]
JInt(i) == [t |-> "int", v |-> i]
JFloat(k) == [t |-> "float", v |-> k]
JStr(s) == [t |-> "str", v |-> s]
JArr(s) == [t |-> "list", v |-> s]
JObj(items) == [t |-> "dict", v |-> items]

\* The sentinel class Missing (the class object itself is the default value).
Missing == [t |-> "type", v |-> 0]

\* A JSONPath instance; v is the sequence of its segments.
JPath(p) == [t |-> "JSONPath", v |-> p]

\* An instance of NullData: a Mapping whose __getitem__, __len__ and __iter__
\* raise NullDataAccess.
NullData == [t |-> "NullData", v |-> 0]

\* The Evaluator instance (self).
Self == [t |-> "Evaluator", v |-> 0]

JSONPath_root == <<"$">>

\* JSONPath.join_path: '.'.join([self, str(part)]). The caller hands str(part):
\* an operator name as it is, an index i as ToString(i).
join_path(path, part) == Append(path, part)

\* isinstance(value, cls) for the classes the annotations name.
IsInstance(value, cls) ==
    CASE cls = "int"      -> value.t \in {"int", "bool"}
      [] cls = "str"      -> value.t \in {"str", "JSONPath"}
      [] cls = "Sequence" -> value.t \in {"list", "str", "JSONPath"}
      [] cls = "Mapping"  -> value.t \in {"dict", "NullData"}
      [] OTHER            -> value.t = cls

\* Python truthiness (bool(value)).
Truthy(value) ==
    CASE value.t = "NoneType" -> FALSE
      [] value.t = "bool"     -> value.v
      [] value.t \in {"int", "float"} -> value.v # 0
      [] value.t = "str"      -> value.v # ""
      [] value.t \in {"list", "dict"} -> Len(value.v) > 0
      [] OTHER                -> TRUE

----------------------------------------------------------------------------
(* Exceptions and outcomes *)

Err(type, msg) == [type |-> type, op |-> "", where |-> <<>>, msg |-> msg]
NoErr == Err("", "")

\* UnrecognizedOperand(where=path, op=op)
UnrecognizedOperand(path, op) ==
    [type |-> "UnrecognizedOperand", op |-> op, where |-> path, msg |-> ""]

Return(value) ==
    [ok |-> TRUE, val |-> value, err |-> NoErr,
     log |-> <<>>, calls |-> <<>>, evals |-> <<>>]

Raise(err) ==
    [ok |-> FALSE, val |-> JNull, err |-> err,
     log |-> <<>>, calls |-> <<>>, evals |-> <<>>]

\* The outcome r of a step that ran after the steps whose effects are in pre.
After(pre, r) ==
    [r EXCEPT !.log = pre.log \o r.log,
              !.calls = pre.calls \o r.calls,
              !.evals = pre.evals \o r.evals]

----------------------------------------------------------------------------
(* The syntactic rule and the operator/argument split *)

\* A validity check that forgets the value: any dict of one item passes.
is_jsonlogic_any_value(json) ==
    IF json.t = "dict" THEN Len(json.v) = 1 ELSE FALSE

\* is_jsonlogic: a dict of exactly one item whose value is not None.
is_jsonlogic(json) ==
    IF json.t = "dict"
    THEN IF Len(json.v) = 1
         THEN json.v[1][2] # JNull
         ELSE FALSE
    ELSE FALSE

\* An op_args that wraps every value, a list too, in a one-element list.
op_args_always_wrapped(jsonlogic) ==
    IF jsonlogic.t # "dict"
    THEN [ok |-> FALSE, err |-> Err("AttributeError", "items"), op |-> "", args |-> <<>>]
    ELSE IF Len(jsonlogic.v) = 0
    THEN [ok |-> FALSE, err |-> Err("StopIteration", ""), op |-> "", args |-> <<>>]
    ELSE [ok |-> TRUE, err |-> NoErr, op |-> jsonlogic.v[1][1],
          args |-> <<jsonlogic.v[1][2]>>]

\* op_args: the first item's key, and its value as a list of arguments.
\* A value with no items() raises AttributeError, an empty dict StopIteration.
op_args(jsonlogic) ==
    IF jsonlogic.t # "dict"
    THEN [ok |-> FALSE, err |-> Err("AttributeError", "items"), op |-> "", args |-> <<>>]
    ELSE IF Len(jsonlogic.v) = 0
    THEN [ok |-> FALSE, err |-> Err("StopIteration", ""), op |-> "", args |-> <<>>]
    ELSE LET op == jsonlogic.v[1][1]
             arg == jsonlogic.v[1][2]
         IN IF arg.t = "list"
            THEN [ok |-> TRUE, err |-> NoErr, op |-> op, args |-> arg.v]
            ELSE [ok |-> TRUE, err |-> NoErr, op |-> op, args |-> <<arg>>]

----------------------------------------------------------------------------
(* Declared parameter shapes (inspect.signature of the operator functions) *)

\* An annotation: k is what the annotation object is, ts the classes it names.
\*   "Any"       typing.Any (a class since Python 3.11; isinstance with it raises)
\*   "type"      one plain class
\*   "UnionType" X | Y of plain classes (types.UnionType)
\*   "Union"     a typing.Union with subscripted members (ts holds their origins)
\*   "GenericAlias" a parameterized generic such as list[str]
AnnAny == [k |-> "Any", ts |-> {}]
AnnType(c) == [k |-> "type", ts |-> {c}]
AnnUnionType(cs) == [k |-> "UnionType", ts |-> cs]
AnnUnion(cs) == [k |-> "Union", ts |-> cs]
AnnGenericAlias(c) == [k |-> "GenericAlias", ts |-> {c}]

\* JSON of src/jsonlogic/json.py, and JSON | Type[Missing].
AnnJSON == AnnUnion({"NoneType", "bool", "int", "float", "str", "Sequence", "Mapping"})
AnnJSONOrMissing == AnnUnion({"NoneType", "bool", "int", "float", "str", "Sequence", "Mapping", "type"})
AnnNumber == AnnUnionType({"int", "float"})
AnnNumberOrMissing == AnnUnion({"int", "float", "type"})

\* A parameter: kind "pos" (POSITIONAL_OR_KEYWORD) or "var" (VAR_POSITIONAL).
Param(name, kind, ann, has_default) ==
    [name |-> name, kind |-> kind, ann |-> ann, has_default |-> has_default]

\* signature(fn) of the operator functions.
Signature(fn) ==
    CASE fn = "op_var" ->
            <<Param("data", "pos", AnnAny, FALSE),
              Param("path", "pos", AnnType("JSONPath"), FALSE),
              Param("key", "pos", AnnUnionType({"int", "str"}), FALSE),
              Param("default", "pos", AnnJSONOrMissing, TRUE)>>
      [] fn = "op_missing" ->
            <<Param("data", "pos", AnnAny, FALSE),
              Param("path", "pos", AnnType("JSONPath"), FALSE),
              Param("args", "var", AnnType("str"), FALSE)>>
      [] fn = "op_missing_some" ->
            <<Param("data", "pos", AnnAny, FALSE),
              Param("path", "pos", AnnType("JSONPath"), FALSE),
              Param("count", "pos", AnnType("int"), FALSE),
              Param("args", "pos", AnnGenericAlias("list"), FALSE)>>
      [] fn = "op_if" ->
            <<Param("data", "pos", AnnAny, FALSE),
              Param("path", "pos", AnnType("JSONPath"), FALSE),
              Param("if_arg", "pos", AnnJSON, FALSE),
              Param("then_arg", "pos", AnnJSON, FALSE),
              Param("elses", "var", AnnJSON, FALSE)>>
      [] fn \in {"op_and", "op_or"} ->
            <<Param("data", "pos", AnnAny, FALSE),
              Param("path", "pos", AnnType("JSONPath"), FALSE),
              Param("left", "pos", AnnJSON, FALSE),
              Param("right", "pos", AnnJSON, FALSE),
              Param("args", "var", AnnJSON, FALSE)>>
      [] fn \in {"op_eq", "op_eq_eq", "op_neq_eq"} ->
            <<Param("left", "pos", AnnAny, FALSE),
              Param("right", "pos", AnnAny, FALSE)>>
      [] fn = "op_not" ->
            <<Param("arg", "pos", AnnAny, FALSE)>>
      [] fn \in {"op_lt", "op_lte", "op_gt", "op_gte"} ->
            <<Param("left", "pos", AnnNumber, FALSE),
              Param("right", "pos", AnnNumber, FALSE),
              Param("righter", "pos", AnnNumberOrMissing, TRUE)>>
      [] fn = "op_add" ->
            <<Param("args", "var", AnnUnionType({"int", "float", "str"}), FALSE)>>
      [] fn = "op_merge" ->
            <<Param("args", "var", AnnJSON, FALSE)>>
      [] fn = "op_log" ->
            <<Param("arg", "pos", AnnJSON, FALSE)>>
      [] fn \in {"op_map", "op_filter", "op_all", "op_none", "op_some"} ->
            <<Param("data", "pos", AnnAny, FALSE),
              Param("path", "pos", AnnType("JSONPath"), FALSE),
              Param("argument", "pos", AnnJSON, FALSE),
              Param("fn", "pos", AnnJSON, FALSE)>>
      [] fn = "op_reduce" ->
            <<Param("data", "pos", AnnAny, FALSE),
              Param("path", "pos", AnnType("JSONPath"), FALSE),
              Param("argument", "pos", AnnJSON, FALSE),
              Param("reduce_fn", "pos", AnnJSON, FALSE),
              Param("initial", "pos", AnnJSON, FALSE)>>

\* get_overloads(fn): the @overload declarations, in declaration order.
Overloads(fn) ==
    IF fn = "op_add"
    THEN << <<Param("arg", "pos", AnnType("str"), FALSE)>>,
            <<Param("args", "var", AnnNumber, FALSE)>> >>
    ELSE <<>>

\* Functions decorated with @type_check (under @op_fn).
TypeChecked(fn) == fn \in {"op_var", "op_missing", "op_missing_some"}

\* Signature.bind(*args): the bound arguments, in parameter order, as
\* [param, values]; a VAR_POSITIONAL parameter is bound only when arguments
\* are left for it. TypeError when an argument is missing or left over.
PosParams(sig) == SelectSeq(sig, LAMBDA p : p.kind = "pos")
HasVar(sig) == \E i \in 1..Len(sig) : sig[i].kind = "var"
Required(sig) == Len(SelectSeq(sig, LAMBDA p : p.kind = "pos" /\ ~p.has_default))

Bind(sig, args) ==
    LET pos == PosParams(sig)
        n == Len(args)
        k == Len(pos)
    IN IF n < Required(sig)
       THEN [ok |-> FALSE, err |-> Err("TypeError", "missing a required argument"),
             arguments |-> <<>>]
       ELSE IF n > k /\ ~HasVar(sig)
       THEN [ok |-> FALSE, err |-> Err("TypeError", "too many positional arguments"),
             arguments |-> <<>>]
       ELSE [ok |-> TRUE, err |-> NoErr,
             arguments |->
                [i \in 1..(IF n < k THEN n ELSE k) |->
                    [param |-> pos[i], values |-> <<args[i]>>]]
                \o (IF n > k
                    THEN <<[param |-> sig[Len(sig)], values |-> SubSeq(args, k + 1, n)]>>
                    ELSE <<>>)]

----------------------------------------------------------------------------
(* The checker of the class: Evaluator._type_check_parameter, _type_check_fn, *)
(* _type_check.                                                               *)

\* _type_check_parameter returns (TRUE) or raises TypeError (FALSE). With a
\* plain class it is isinstance; typing.Any is a class and isinstance with it
\* raises TypeError; a union holds when one member does; a subscripted type is
\* checked by its origin.
Evaluator_type_check_parameter(arg_value, annotation) ==
    CASE annotation.k = "Any" -> FALSE
      [] OTHER -> \E c \in annotation.ts : IsInstance(arg_value, c)

\* _type_check_fn: bind, then check every bound argument.
Evaluator_type_check_fn(sig, args) ==
    LET bound == Bind(sig, args)
    IN IF ~bound.ok
       THEN [ok |-> FALSE, err |-> bound.err]
       ELSE IF \A i \in 1..Len(bound.arguments) :
                  \A j \in 1..Len(bound.arguments[i].values) :
                      Evaluator_type_check_parameter(bound.arguments[i].values[j],
                                                     bound.arguments[i].param.ann)
            THEN [ok |-> TRUE, err |-> NoErr]
            ELSE [ok |-> FALSE,
                  err |-> Err("TypeError", "received argument of incorrect type")]

\* _type_check: with overloads, the first overload that checks; with none,
\* the function's own signature.
Evaluator_type_check(fn, args) ==
    LET overloads == Overloads(fn)
    IN IF Len(overloads) > 0
       THEN IF \E i \in 1..Len(overloads) : Evaluator_type_check_fn(overloads[i], args).ok
            THEN [ok |-> TRUE, err |-> NoErr]
            ELSE [ok |-> FALSE, err |-> Err("TypeError", "No matching overload")]
       ELSE Evaluator_type_check_fn(Signature(fn), args)

----------------------------------------------------------------------------
(* The checker of the functional evaluator: the wrapper of type_check *)

\* The annotations the wrapper looks at: a class, or a UnionType of classes.
Checked(annotation) == annotation.k \in {"Any", "type", "UnionType"}

\* One signature of the loop over fn_sigs, on the bound arguments from index i
\* on: "next" when a positional argument fails isinstance (break),
\* "raise" when isinstance itself raises (typing.Any), "match" when the loop
\* over the arguments ends. A VAR_POSITIONAL argument's break leaves only the
\* inner loop.
RECURSIVE type_check_arguments(_, _)
type_check_arguments(arguments, i) ==
    IF i > Len(arguments)
    THEN "match"
    ELSE LET a == arguments[i]
         IN IF ~Checked(a.param.ann)
            THEN type_check_arguments(arguments, i + 1)
            ELSE IF a.param.ann.k = "Any"
            THEN "raise"
            ELSE IF a.param.kind = "pos"
                    /\ ~(\E c \in a.param.ann.ts : IsInstance(a.values[1], c))
            THEN "next"
            ELSE type_check_arguments(arguments, i + 1)

\* The loop over fn_sigs from index i on: the index of the first signature
\* that matches, or the TypeError raised. bind's TypeError is not caught.
RECURSIVE type_check_sigs(_, _, _)
type_check_sigs(fn_sigs, args, i) ==
    IF i > Len(fn_sigs)
    THEN [ok |-> FALSE, err |-> Err("TypeError", "No matching overload found for args")]
    ELSE LET bound == Bind(fn_sigs[i], args)
         IN IF ~bound.ok
            THEN [ok |-> FALSE, err |-> bound.err]
            ELSE LET verdict == type_check_arguments(bound.arguments, 1)
                 IN CASE verdict = "match" -> [ok |-> TRUE, err |-> NoErr]
                      [] verdict = "raise" ->
                            [ok |-> FALSE,
                             err |-> Err("TypeError", "typing.Any cannot be used with isinstance()")]
                      [] OTHER -> type_check_sigs(fn_sigs, args, i + 1)

\* type_check(fn) applied to args, up to the call of fn.
type_check(fn, args) ==
    LET fn_sigs == IF Len(Overloads(fn)) > 0 THEN Overloads(fn) ELSE <<Signature(fn)>>
    IN type_check_sigs(fn_sigs, args, 1)

----------------------------------------------------------------------------
(* Python arithmetic, equality and ordering on the values *)

IsNumber(value) == value.t \in {"int", "float", "bool"}

\* The numeric value in tenths (True is 1, False is 0).
Tenths(value) ==
    CASE value.t = "int"  -> 10 * value.v
      [] value.t = "bool" -> IF value.v THEN 10 ELSE 0
      [] OTHER            -> value.v

\* int(s) and float(s) for the strings of the model; a string that is not a
\* key raises ValueError.
IntOfStr == [s \in {"1", "3", "10"} |->
                CASE s = "1" -> 1 [] s = "3" -> 3 [] OTHER -> 10]
FloatOfStr == [s \in {"1", "1.0", "3", "10", "1.5"} |->
                CASE s \in {"1", "1.0"} -> 10 [] s = "3" -> 30 [] s = "10" -> 100
                  [] OTHER -> 15]

\* The strings of the model in Python's order.
StrOrder == <<"", "$", "1", "1.0", "1.5", "10", "3", "a", "b", "foo", "true", "x">>
StrRank(s) == CHOOSE i \in 1..Len(StrOrder) : StrOrder[i] = s

Keys(items) == {items[i][1] : i \in 1..Len(items)}
Lookup(items, key) == items[CHOOSE i \in 1..Len(items) : items[i][1] = key][2]

\* left == right in Python.
RECURSIVE PyEq(_, _)
PyEq(left, right) ==
    CASE IsNumber(left) /\ IsNumber(right) -> Tenths(left) = Tenths(right)
      [] left.t = "list" /\ right.t = "list" ->
            /\ Len(left.v) = Len(right.v)
            /\ \A i \in 1..Len(left.v) : PyEq(left.v[i], right.v[i])
      [] left.t = "dict" /\ right.t = "dict" ->
            /\ Keys(left.v) = Keys(right.v)
            /\ \A key \in Keys(left.v) : PyEq(Lookup(left.v, key), Lookup(right.v, key))
      [] OTHER -> left.t = right.t /\ left.v = right.v

\* left < right in Python: "lt", "ge" or "TypeError".
RECURSIVE PyLess(_, _)
PyLess(left, right) ==
    CASE IsNumber(left) /\ IsNumber(right) ->
            IF Tenths(left) < Tenths(right) THEN "lt" ELSE "ge"
      [] left.t = "str" /\ right.t = "str" ->
            IF StrRank(left.v) < StrRank(right.v) THEN "lt" ELSE "ge"
      [] left.t = "list" /\ right.t = "list" ->
            LET differ == {i \in 1..Len(left.v) :
                              i <= Len(right.v) /\ ~PyEq(left.v[i], right.v[i])}
            IN IF differ = {}
               THEN IF Len(left.v) < Len(right.v) THEN "lt" ELSE "ge"
               ELSE LET i == CHOOSE i \in differ : \A j \in differ : i <= j
                    IN PyLess(left.v[i], right.v[i])
      [] OTHER -> "TypeError"

----------------------------------------------------------------------------
(* The functional evaluator: _evaluate, maybe_evaluate, the operators and the *)
(* wrapper op_fn puts in the registry                                         *)

RECURSIVE _evaluate(_, _, _)

\* A maybe_evaluate that evaluates whatever it is handed.
maybe_evaluate_always(data, path, json) == _evaluate(data, path, json)

\* maybe_evaluate: evaluate what is JSONLogic, return anything else as it is.
maybe_evaluate(data, path, json) ==
    IF is_jsonlogic(json)
    THEN _evaluate(data, path, json)
    ELSE Return(json)

\* op_var (the body under @type_check). A str key goes through JSONPath(key),
\* which raises ValueError for a key that does not start with '$.', as every
\* key of the model; an int key indexes a sequence, and the value found is
\* not returned.
op_var(args) ==
    LET data == args[1]
        key == args[3]
        default == IF Len(args) >= 4 THEN args[4] ELSE Missing
        fallback == IF default # Missing THEN Return(default) ELSE Return(JNull)
    IN IF key.t = "str"
       THEN Raise(Err("ValueError", "JSONPath must start with '$.'"))
       ELSE IF data.t \in {"list", "str"}
       THEN IF data.t = "list" /\ -Len(data.v) <= key.v /\ key.v < Len(data.v)
            THEN Return(JNull)
            ELSE IF data.t = "str"
            THEN Return(JNull)
            ELSE fallback
       ELSE fallback

\* _has_var: the lookup of op_var, True when it ends without KeyError or
\* IndexError. JSONPath(key) raises ValueError for a str key, as in op_var.
_has_var(data, key) ==
    IF key.t = "str"
    THEN Raise(Err("ValueError", "JSONPath must start with '$.'"))
    ELSE IF data.t \in {"list", "str"}
    THEN IF data.t = "list"
         THEN Return(JBool(-Len(data.v) <= key.v /\ key.v < Len(data.v)))
         ELSE Return(JBool(TRUE))
    ELSE Return(JBool(FALSE))

\* [arg for arg in args if not _has_var(data, arg)], from index i on.
RECURSIVE op_missing_from(_, _, _)

\* The list once _has_var(data, args[i]) has given has_var.
op_missing_keep(has_var, rest, arg) ==
    IF ~has_var.ok
    THEN has_var
    ELSE IF ~rest.ok
    THEN rest
    ELSE IF has_var.val.v THEN rest ELSE Return(JArr(<<arg>> \o rest.val.v))

op_missing_from(data, args, i) ==
    IF i > Len(args)
    THEN Return(JArr(<<>>))
    ELSE op_missing_keep(_has_var(data, args[i]), op_missing_from(data, args, i + 1), args[i])

\* op_missing (the body under @type_check)
op_missing(args) == op_missing_from(args[1], SubSeq(args, 3, Len(args)), 1)

\* op_if: the condition, then the branch taken. With one value left after
\* the pair it is then_arg that is evaluated again, at index 2; with more,
\* the function calls itself on the values left.
RECURSIVE op_if(_)

\* op_if once if_arg is evaluated to truthy or not: the match on elses.
op_if_branch(truthy, args) ==
    LET data == args[1]
        path == args[2].v
        then_arg == args[4]
        elses == SubSeq(args, 5, Len(args))
    IN IF truthy
       THEN maybe_evaluate(data, join_path(path, ToString(1)), then_arg)
       ELSE CASE Len(elses) = 0 -> Return(JNull)
              [] Len(elses) = 1 ->
                    maybe_evaluate(data, join_path(path, ToString(2)), then_arg)
              [] OTHER -> op_if(<<data, args[2]>> \o elses)

\* op_if from the outcome if_arg of evaluating the condition.
op_if_then(if_arg, args) ==
    IF ~if_arg.ok
    THEN if_arg
    ELSE After(if_arg, op_if_branch(Truthy(if_arg.val), args))

op_if(args) ==
    op_if_then(maybe_evaluate(args[1], join_path(args[2].v, ToString(0)), args[3]), args)

\* op_and: the operands one by one while more than one is left; the first
\* falsy value is returned, else the value of the last operand.
RECURSIVE op_and_loop(_, _, _, _)

\* if not (value := maybe_evaluate(...)): return value; else the next turn.
op_and_turn(value, data, path, args, idx) ==
    IF ~value.ok
    THEN value
    ELSE IF ~Truthy(value.val)
    THEN value
    ELSE After(value, op_and_loop(data, path, Tail(args), idx + 1))

op_and_loop(data, path, args, idx) ==
    IF Len(args) > 1
    THEN op_and_turn(maybe_evaluate(data, join_path(path, ToString(idx)), args[1]),
                     data, path, args, idx)
    ELSE maybe_evaluate(data, join_path(path, ToString(idx)), args[1])

op_and(args) == op_and_loop(args[1], args[2].v, SubSeq(args, 3, Len(args)), 0)

\* op_or: the same loop, the first truthy value returned.
RECURSIVE op_or_loop(_, _, _, _)

\* if value := maybe_evaluate(...): return value; else the next turn.
op_or_turn(value, data, path, args, idx) ==
    IF ~value.ok
    THEN value
    ELSE IF Truthy(value.val)
    THEN value
    ELSE After(value, op_or_loop(data, path, Tail(args), idx + 1))

op_or_loop(data, path, args, idx) ==
    IF Len(args) > 1
    THEN op_or_turn(maybe_evaluate(data, join_path(path, ToString(idx)), args[1]),
                    data, path, args, idx)
    ELSE maybe_evaluate(data, join_path(path, ToString(idx)), args[1])

op_or(args) == op_or_loop(args[1], args[2].v, SubSeq(args, 3, Len(args)), 0)

\* The list of the values: the value of first in front of those of rest,
\* which ran after it; the first exception when there is one.
ConsArgs(first, rest) ==
    IF ~first.ok
    THEN first
    ELSE IF ~rest.ok
    THEN After(first, rest)
    ELSE [After(first, rest) EXCEPT !.val = JArr(<<first.val>> \o rest.val.v)]

\* The checks 'map', 'filter', 'reduce', 'all', 'none' and 'some' make once
\* their first argument is evaluated: it is a list, and fn is JSONLogic.
CheckedArgument(op, argument, fn) ==
    IF ~argument.ok
    THEN argument
    ELSE IF argument.val.t # "list"
    THEN After(argument, Raise(Err("TypeError", "expected array as first parameter")))
    ELSE IF ~is_jsonlogic(fn)
    THEN After(argument, Raise(Err("TypeError", "expected jsonlogic object as second parameter")))
    ELSE argument

\* [_evaluate(arg, path.join_path(...), fn) for arg in argument], from the
\* element i (1-based) on: the path is joined with 1 in 'map', with the index
\* of the element in 'all', 'none' and 'some'.
RECURSIVE Comprehension(_, _, _, _, _)
Comprehension(argument, path, fn, i, enumerated) ==
    IF i > Len(argument)
    THEN Return(JArr(<<>>))
    ELSE ConsArgs(
            _evaluate(argument[i],
                      join_path(path, IF enumerated THEN ToString(i - 1) ELSE "1"), fn),
            Comprehension(argument, path, fn, i + 1, enumerated))

\* The comprehension over a checked argument.
Each(argument, path, fn, enumerated) ==
    IF ~argument.ok
    THEN argument
    ELSE After(argument, Comprehension(argument.val.v, path, fn, 1, enumerated))

\* op_map: the element is the data of each evaluation of map_fn.
op_map(args) ==
    Each(CheckedArgument("map", maybe_evaluate(args[1], join_path(args[2].v, "0"), args[3]), args[4]),
         args[2].v, args[4], FALSE)

\* op_filter: the elements for which filter_fn evaluates truthy.
RECURSIVE op_filter_loop(_, _, _, _)

op_filter_turn(arg, kept, rest) ==
    IF ~kept.ok
    THEN kept
    ELSE IF ~rest.ok
    THEN After(kept, rest)
    ELSE [After(kept, rest) EXCEPT
            !.val = JArr((IF Truthy(kept.val) THEN <<arg>> ELSE <<>>) \o rest.val.v)]

op_filter_loop(argument, path, filter_fn, i) ==
    IF i > Len(argument)
    THEN Return(JArr(<<>>))
    ELSE op_filter_turn(argument[i],
                        _evaluate(argument[i], join_path(path, "1"), filter_fn),
                        op_filter_loop(argument, path, filter_fn, i + 1))

op_filter_each(argument, path, filter_fn) ==
    IF ~argument.ok
    THEN argument
    ELSE After(argument, op_filter_loop(argument.val.v, path, filter_fn, 1))

op_filter(args) ==
    op_filter_each(
        CheckedArgument("filter", maybe_evaluate(args[1], join_path(args[2].v, "0"), args[3]), args[4]),
        args[2].v, args[4])

\* op_reduce: acc = {"current": None, "accumulator": initial}; every element
\* becomes acc["current"] and the evaluation of reduce_fn with acc as data
\* becomes acc["accumulator"].
Acc(current, accumulator) ==
    JObj(<< <<"current", current>>, <<"accumulator", accumulator>> >>)

RECURSIVE op_reduce_loop(_, _, _, _, _)

op_reduce_turn(value, argument, path, reduce_fn, i) ==
    IF ~value.ok
    THEN value
    ELSE After(value, op_reduce_loop(argument, path, reduce_fn, value.val, i + 1))

op_reduce_loop(argument, path, reduce_fn, accumulator, i) ==
    IF i > Len(argument)
    THEN Return(accumulator)
    ELSE op_reduce_turn(
            _evaluate(Acc(argument[i], accumulator), join_path(path, "1"), reduce_fn),
            argument, path, reduce_fn, i)

\* The checks and the loop, argument and initial being evaluated first.
op_reduce_checked(argument, initial, path, reduce_fn) ==
    IF ~initial.ok
    THEN initial
    ELSE IF argument.val.t # "list"
    THEN After(initial, Raise(Err("TypeError", "expected array as first parameter")))
    ELSE IF ~is_jsonlogic(reduce_fn)
    THEN After(initial, Raise(Err("TypeError", "expected jsonlogic object as second parameter")))
    ELSE After(initial, op_reduce_loop(argument.val.v, path, reduce_fn, initial.val, 1))

op_reduce_initial(argument, data, path, reduce_fn, initial) ==
    IF ~argument.ok
    THEN argument
    ELSE op_reduce_checked(argument,
                           After(argument, maybe_evaluate(data, join_path(path, "2"), initial)),
                           path, reduce_fn)

op_reduce(args) ==
    op_reduce_initial(maybe_evaluate(args[1], join_path(args[2].v, "0"), args[3]),
                      args[1], args[2].v, args[4], args[5])

\* all([...]) and any([...]) of the results of a comprehension.
AllOf(results) ==
    IF ~results.ok
    THEN results
    ELSE [results EXCEPT
            !.val = JBool(\A i \in 1..Len(results.val.v) : Truthy(results.val.v[i]))]

NotAnyOf(results) ==
    IF ~results.ok
    THEN results
    ELSE [results EXCEPT
            !.val = JBool(~\E i \in 1..Len(results.val.v) : Truthy(results.val.v[i]))]

\* op_all: all([...]); op_none and op_some: not any([...]).
op_all(args) ==
    AllOf(Each(CheckedArgument("all", maybe_evaluate(args[1], join_path(args[2].v, "0"), args[3]),
                       args[4]),
               args[2].v, args[4], TRUE))

op_none(args) ==
    NotAnyOf(Each(CheckedArgument("none", maybe_evaluate(args[1], join_path(args[2].v, "0"), args[3]),
                          args[4]),
                  args[2].v, args[4], TRUE))

op_some(args) ==
    NotAnyOf(Each(CheckedArgument("some", maybe_evaluate(args[1], join_path(args[2].v, "0"), args[3]),
                          args[4]),
                  args[2].v, args[4], TRUE))

\* op_eq: loose equality.
op_eq(args) ==
    LET left == args[1]
        right == args[2]
        l == IF right.t = "str" THEN right ELSE left
        r == IF right.t = "str" THEN left ELSE right
    IN IF \/ left.t = right.t
          \/ (left.t = "bool" /\ right.t = "int")
          \/ (right.t = "bool" /\ left.t = "int")
       THEN Return(JBool(PyEq(left, right)))
       ELSE IF \/ (IsInstance(left, "int") /\ right.t = "float")
               \/ (left.t = "float" /\ IsInstance(right, "int"))
       THEN Return(JBool(PyEq(left, right)))
       ELSE IF left = JNull \/ right = JNull
       THEN Return(JBool(PyEq(left, right)))
       ELSE IF left.t = "bool" \/ right.t = "bool"
       THEN Return(JBool(PyEq(left, right)))
       ELSE IF l.t = "str" /\ r.t \in {"int", "float"}
       THEN IF r.t = "int"
            THEN Return(JBool(IF l.v \in DOMAIN IntOfStr
                              THEN IntOfStr[l.v] = r.v
                              ELSE FALSE))
            ELSE Return(JBool(IF l.v \in DOMAIN FloatOfStr
                              THEN FloatOfStr[l.v] = r.v
                              ELSE FALSE))
       ELSE Return(JBool(PyEq(l, r)))

\* op_eq_eq and op_neq_eq: left == right and left != right.
op_eq_eq(args) == Return(JBool(PyEq(args[1], args[2])))
op_neq_eq(args) == Return(JBool(~PyEq(args[1], args[2])))

\* op_not
op_not(args) == Return(JBool(~Truthy(args[1])))

\* left rel right in Python for rel one of "<", "<=", ">", ">=": "true",
\* "false" or "TypeError"; less is what the operands give in the order of
\* rel.
PyCompared(rel, less, left, right) ==
    CASE less = "TypeError" -> "TypeError"
      [] rel \in {"<", ">"} -> IF less = "lt" THEN "true" ELSE "false"
      [] OTHER -> IF less = "lt" \/ PyEq(left, right) THEN "true" ELSE "false"

PyCompare(rel, left, right) ==
    PyCompared(rel,
               PyLess(IF rel \in {"<", "<="} THEN left ELSE right,
                      IF rel \in {"<", "<="} THEN right ELSE left),
               left, right)

\* left rel right, or left rel right rel righter.
ChainedSecond(second) ==
    IF second = "TypeError"
    THEN Raise(Err("TypeError", "'<' not supported"))
    ELSE Return(JBool(second = "true"))

ChainedFirst(rel, first, args) ==
    IF first = "TypeError"
    THEN Raise(Err("TypeError", "'<' not supported"))
    ELSE IF Len(args) < 3 \/ first = "false"
    THEN Return(JBool(first = "true"))
    ELSE ChainedSecond(PyCompare(rel, args[2], args[3]))

Chained(rel, args) == ChainedFirst(rel, PyCompare(rel, args[1], args[2]), args)

\* op_lt, op_lte, op_gt, op_gte
op_lt(args) == Chained("<", args)
op_lte(args) == Chained("<=", args)
op_gt(args) == Chained(">", args)
op_gte(args) == Chained(">=", args)

\* op_add: float(arg) of one str, else the sum from 0.
RECURSIVE SumTenths(_)
SumTenths(args) ==
    IF Len(args) = 0 THEN 0 ELSE Tenths(args[1]) + SumTenths(Tail(args))

op_add(args) ==
    IF Len(args) = 1 /\ args[1].t = "str"
    THEN IF args[1].v \in DOMAIN FloatOfStr
         THEN Return(JFloat(FloatOfStr[args[1].v]))
         ELSE Raise(Err("ValueError", "could not convert string to float"))
    ELSE IF \E i \in 1..Len(args) : ~IsNumber(args[i])
    THEN Raise(Err("TypeError", "unsupported operand type(s) for +"))
    ELSE IF \E i \in 1..Len(args) : args[i].t = "float"
    THEN Return(JFloat(SumTenths(args)))
    ELSE Return(JInt(SumTenths(args) \div 10))

\* op_merge: the arguments in one list, a list argument spliced in.
RECURSIVE MergeAll(_)
MergeAll(args) ==
    IF Len(args) = 0
    THEN <<>>
    ELSE (IF args[1].t = "list" THEN args[1].v ELSE <<args[1]>>) \o MergeAll(Tail(args))

op_merge(args) == Return(JArr(MergeAll(args)))

\* op_log: print(arg); return arg.
op_log(args) == [Return(args[1]) EXCEPT !.log = <<args[1]>>]

\* The implementation fn is entered with args.
Entered(fn, args) ==
    [log |-> <<>>, calls |-> <<[fn |-> fn, args |-> args]>>, evals |-> <<>>]

\* The body of an operator function that evaluates nothing itself.
Body(fn, args) ==
    CASE fn = "op_var"   -> op_var(args)
      [] fn = "op_missing" -> op_missing(args)
      [] fn = "op_eq"    -> op_eq(args)
      [] fn = "op_eq_eq" -> op_eq_eq(args)
      [] fn = "op_neq_eq" -> op_neq_eq(args)
      [] fn = "op_not"   -> op_not(args)
      [] fn = "op_lt"    -> op_lt(args)
      [] fn = "op_lte"   -> op_lte(args)
      [] fn = "op_gt"    -> op_gt(args)
      [] fn = "op_gte"   -> op_gte(args)
      [] fn = "op_add"   -> op_add(args)
      [] fn = "op_merge" -> op_merge(args)
      [] fn = "op_log"   -> op_log(args)

RECURSIVE type_check_wrapper(_, _)

\* op_missing_some once missing = op_missing(data, path, *args) is made; the
\* name op_missing is bound to the wrapper of type_check.
op_missing_some_count(missing, count, args) ==
    IF ~missing.ok
    THEN missing
    ELSE IF Len(args.v) - Len(missing.val.v) < count.v
    THEN missing
    ELSE After(missing, Return(JArr(<<>>)))

\* op_missing_some (the body under @type_check); args is a list.
op_missing_some(args) ==
    op_missing_some_count(type_check_wrapper("op_missing", <<args[1], args[2]>> \o args[4].v),
                          args[3], args[4])

\* The body of the operator function fn run on args, once the call is bound.
Impl(fn, args) ==
    After(Entered(fn, args),
          CASE fn = "op_if"           -> op_if(args)
            [] fn = "op_and"          -> op_and(args)
            [] fn = "op_or"           -> op_or(args)
            [] fn = "op_missing_some" -> op_missing_some(args)
            [] fn = "op_map"          -> op_map(args)
            [] fn = "op_filter"       -> op_filter(args)
            [] fn = "op_reduce"       -> op_reduce(args)
            [] fn = "op_all"          -> op_all(args)
            [] fn = "op_none"         -> op_none(args)
            [] fn = "op_some"         -> op_some(args)
            [] OTHER                  -> Body(fn, args))

\* fn(*args): Python binds the arguments to the parameters of fn (TypeError
\* when one is missing or left over) and runs the body.
Apply(fn, args) ==
    LET bound == Bind(Signature(fn), args)
    IN IF bound.ok THEN Impl(fn, args) ELSE Raise(bound.err)

\* The wrapper type_check returns for fn, called with args: the body runs
\* when a signature is accepted.
type_check_wrapper(fn, args) ==
    LET checked == type_check(fn, args)
    IN IF checked.ok THEN Impl(fn, args) ELSE Raise(checked.err)

\* The call of a registered function: through the wrapper of type_check
\* when the function is decorated with it.
CallFn(fn, args) ==
    IF TypeChecked(fn)
    THEN type_check_wrapper(fn, args)
    ELSE Apply(fn, args)

\* A list in which None stands for an argument whose evaluation failed, the
\* arguments left evaluated all the same.
ConsArgs_default_on_failure(first, rest) ==
    [After(first, rest) EXCEPT
        !.val = JArr(<<IF first.ok THEN first.val ELSE JNull>> \o rest.val.v)]

\* An argument loop that goes on after a failure.
RECURSIVE EvaluateArgs_default_on_failure(_, _, _, _, _)
EvaluateArgs_default_on_failure(data, path, op, _args, i) ==
    IF i > Len(_args)
    THEN Return(JArr(<<>>))
    ELSE ConsArgs_default_on_failure(
            maybe_evaluate(data, join_path(join_path(path, op), ToString(i - 1)), _args[i]),
            EvaluateArgs_default_on_failure(data, path, op, _args, i + 1))

\* tuple(maybe_evaluate(data, path.join_path(op).join_path(i), arg)
\*       for i, arg in enumerate(_args)), from index i (1-based) on: the
\* values in val, or the first exception.
RECURSIVE EvaluateArgs(_, _, _, _, _)
EvaluateArgs(data, path, op, _args, i) ==
    IF i > Len(_args)
    THEN Return(JArr(<<>>))
    ELSE ConsArgs(
            maybe_evaluate(data, join_path(join_path(path, op), ToString(i - 1)), _args[i]),
            EvaluateArgs(data, path, op, _args, i + 1))

\* return op_fn(data, path, *args) of the wrapper, args being the outcome of
\* building the argument tuple.
wrapper_call(entry, data, path, args) ==
    IF ~args.ok
    THEN args
    ELSE After(args,
               CallFn(entry.fn,
                      IF entry.pass_data
                      THEN <<data, JPath(path)>> \o args.val.v
                      ELSE args.val.v))

\* A wrapper that hands the slots over as written whatever evaluate_args is.
wrapper_never_evaluates(entry, data, path, _args) ==
    wrapper_call(entry, data, path, Return(JArr(_args)))

\* The wrapper op_fn registers for an operator: entry is its closure
\* [op, fn, evaluate_args, pass_data].
wrapper(entry, data, path, _args) ==
    wrapper_call(entry, data, path,
                 IF entry.evaluate_args
                 THEN EvaluateArgs(data, path, entry.op, _args, 1)
                 ELSE Return(JArr(_args)))

\* The evaluation of jsonlogic at path ended with outcome r.
Ended(path, jsonlogic, r) ==
    [r EXCEPT !.evals = r.evals \o
        <<[path |-> path, jsonlogic |-> jsonlogic, ok |-> r.ok, err |-> r.err]>>]

\* _evaluate once op_args has given oa: look the operator up and call its
\* wrapper.
_evaluate_op(data, path, oa) ==
    IF ~oa.ok
    THEN Raise(oa.err)
    ELSE IF oa.op \in DOMAIN _op_fns
    THEN wrapper(_op_fns[oa.op], data, path, oa.args)
    ELSE Raise(UnrecognizedOperand(path, oa.op))

_evaluate(data, path, jsonlogic) ==
    Ended(path, jsonlogic, _evaluate_op(data, path, op_args(jsonlogic)))

\* evaluate: _evaluate from the root path.
evaluate(data, jsonlogic) == _evaluate(data, JSONPath_root, jsonlogic)

\* eval: evaluate with a NullData instance as the data.
eval(jsonlogic) == evaluate(NullData, jsonlogic)

----------------------------------------------------------------------------
(* The class Evaluator *)

\* JSONLogic(value): the expression node built from a raw value, or
\* MalformedExpression when the value fails the validity rule. The node is
\* held as the value it was built from; its op and args are those of op_args.
JSONLogic(value) ==
    IF is_jsonlogic(value)
    THEN Return(value)
    ELSE Raise(Err("MalformedExpression", "not JSONLogic"))

\* isinstance(arg, JSONLogic) for an argument slot: the slots of a node that
\* satisfy the validity rule are nodes themselves.
isinstance_JSONLogic(arg) == is_jsonlogic(arg)

RECURSIVE Evaluator__evaluate(_, _)

\* Evaluator._evaluate on the node the constructor gave, or its failure.
Evaluator_evaluate_built(node, data) ==
    IF node.ok THEN Evaluator__evaluate(node.val, data) ELSE node

\* Evaluator.evaluate: build the node when handed a raw value, then
\* _evaluate.
Evaluator_evaluate(jsonlogic, data) ==
    Evaluator_evaluate_built(JSONLogic(jsonlogic), data)

\* Evaluator.maybe_evaluate
Evaluator_maybe_evaluate(arg, data) ==
    IF isinstance_JSONLogic(arg)
    THEN Evaluator__evaluate(arg, data)
    ELSE Return(arg)

\* Evaluator._evaluate_args, from index i on: the list of the values, or the
\* first exception. self.evaluate on a slot that is a node goes straight to
\* _evaluate.
RECURSIVE Evaluator_evaluate_args(_, _, _)
Evaluator_evaluate_args(args, data, i) ==
    IF i > Len(args)
    THEN Return(JArr(<<>>))
    ELSE ConsArgs(IF isinstance_JSONLogic(args[i])
                  THEN Evaluator__evaluate(args[i], data)
                  ELSE Return(args[i]),
                  Evaluator_evaluate_args(args, data, i + 1))

\* fn(*evaluated_args) for the functions registered with the class, which
\* evaluate nothing themselves.
Evaluator_apply(fn, args) ==
    LET bound == Bind(Signature(fn), args)
    IN IF bound.ok THEN After(Entered(fn, args), Body(fn, args)) ELSE Raise(bound.err)

\* The arguments fn is called with: [self] + [data] + evaluated_args.
Evaluator_call_args(entry, data, evaluated_args) ==
    (IF entry.pass_evaluator THEN <<Self>> ELSE <<>>)
    \o (IF entry.pass_data THEN <<data>> ELSE <<>>)
    \o evaluated_args

\* self._type_check(fn, evaluated_args); return fn(*evaluated_args)
Evaluator_checked_call(fn, evaluated_args) ==
    LET checked == Evaluator_type_check(fn, evaluated_args)
    IN IF checked.ok THEN Evaluator_apply(fn, evaluated_args) ELSE Raise(checked.err)

\* The function op_fn that Evaluator.op_fn's decorator registers, from the
\* outcome evaluated of building evaluated_args: entry is its closure
\* [op, fn, pass_evaluator, pass_data, evaluate_args].
Evaluator_op_fn_call(entry, data, evaluated) ==
    IF ~evaluated.ok
    THEN evaluated
    ELSE After(evaluated,
               Evaluator_checked_call(entry.fn,
                                      Evaluator_call_args(entry, data, evaluated.val.v)))

Evaluator_op_fn_inner(entry, data, args) ==
    Evaluator_op_fn_call(entry, data,
                         IF entry.evaluate_args
                         THEN Evaluator_evaluate_args(args, data, 1)
                         ELSE Return(JArr(args)))

\* Evaluator._evaluate once op and args are read: look the operator up and
\* call its op_fn.
Evaluator__evaluate_op(oa, data) ==
    IF oa.op \in DOMAIN Evaluator_op_fns
    THEN Evaluator_op_fn_inner(Evaluator_op_fns[oa.op], data, oa.args)
    ELSE Raise(Err("ValueError", "Unrecognized operator: '" \o oa.op))

Evaluator__evaluate(jsonlogic, data) ==
    Ended(<<>>, jsonlogic, Evaluator__evaluate_op(op_args(jsonlogic), data))

----------------------------------------------------------------------------
(* Registration *)

\* The closure of the wrapper op_fn(_op, evaluate_args, pass_data)(fn) builds.
Wrapper(op, fn, evaluate_args, pass_data) ==
    [op |-> op, fn |-> fn, evaluate_args |-> evaluate_args, pass_data |-> pass_data]

\* The @op_fn registrations the module makes when it is imported, among them
\* the operators modelled here.
Builtins ==
    <<Wrapper("var", "op_var", TRUE, TRUE),
      Wrapper("missing", "op_missing", TRUE, TRUE),
      Wrapper("missing_some", "op_missing_some", TRUE, TRUE),
      Wrapper("and", "op_and", FALSE, TRUE),
      Wrapper("or", "op_or", FALSE, TRUE),
      Wrapper("if", "op_if", FALSE, TRUE),
      Wrapper("==", "op_eq", TRUE, FALSE),
      Wrapper("===", "op_eq_eq", TRUE, FALSE),
      Wrapper("!==", "op_neq_eq", TRUE, FALSE),
      Wrapper("!", "op_not", TRUE, FALSE),
      Wrapper("<", "op_lt", TRUE, FALSE),
      Wrapper("<=", "op_lte", TRUE, FALSE),
      Wrapper(">", "op_gt", TRUE, FALSE),
      Wrapper(">=", "op_gte", TRUE, FALSE),
      Wrapper("+", "op_add", TRUE, FALSE),
      Wrapper("map", "op_map", FALSE, TRUE),
      Wrapper("filter", "op_filter", FALSE, TRUE),
      Wrapper("reduce", "op_reduce", FALSE, TRUE),
      Wrapper("all", "op_all", FALSE, TRUE),
      Wrapper("none", "op_none", FALSE, TRUE),
      Wrapper("some", "op_some", FALSE, TRUE),
      Wrapper("merge", "op_merge", TRUE, FALSE),
      Wrapper("log", "op_log", FALSE, FALSE)>>

\* The decorator of op_fn applied to fn: the registry after it, and what the
\* call returned or raised.
op_fn_decorator(registry, op, fn, evaluate_args, pass_data) ==
    IF op \in DOMAIN registry
    THEN [registry |-> registry,
          out |-> Raise(Err("RuntimeError", "Op '" \o op \o "' assigned to multiple op functions"))]
    ELSE [registry |-> [o \in DOMAIN registry \cup {op} |->
                            IF o = op
                            THEN Wrapper(op, fn, evaluate_args, pass_data)
                            ELSE registry[o]],
          out |-> Return(JStr(fn))]

\* The registry after the registrations regs, all of different names, made
\* from the empty one: each name maps to the wrapper registered for it.
Registered(regs) ==
    [op \in {regs[i].op : i \in 1..Len(regs)} |->
        regs[CHOOSE i \in 1..Len(regs) : regs[i].op = op]]

\* The decorator Evaluator.op_fn returns: the closure of its arguments.
Decorator(op, pass_evaluator, pass_data, evaluate_args) ==
    [op |-> op, pass_evaluator |-> pass_evaluator, pass_data |-> pass_data,
     evaluate_args |-> evaluate_args]

\* Evaluator.op_fn(op, ...): ValueError when op is registered, else the
\* decorator.
Evaluator_op_fn(registry, op, pass_evaluator, pass_data, evaluate_args) ==
    IF op \in DOMAIN registry
    THEN [ok |-> FALSE,
          err |-> Err("ValueError", "Operator 'op' is already registered with evaluator class")]
    ELSE [ok |-> TRUE, err |-> NoErr]

\* decorator(fn): cls._op_fns[op] = op_fn; return fn.
Evaluator_decorator(registry, d, fn) ==
    [o \in DOMAIN registry \cup {d.op} |->
        IF o = d.op
        THEN [op |-> d.op, fn |-> fn, pass_evaluator |-> d.pass_evaluator,
              pass_data |-> d.pass_data, evaluate_args |-> d.evaluate_args]
        ELSE registry[o]]

----------------------------------------------------------------------------
(* The calls a client makes: bounded inputs *)

\* The longest argument list written in an expression.
MaxArgs == 2

\* The most decorators of Evaluator.op_fn a client holds at once.
MaxDecorators == 1

\* {"op": arg} and {"op": [args...]}
Expr(op, arg) == JObj(<< <<op, arg>> >>)

\* What an argument slot holds: literals, an expression of an unknown
\* operator, one whose evaluation raises ValueError, one that evaluates to 2.
Slots ==
    {JNull, JInt(1), JStr("a"),
     Expr("bar", JInt(1)), Expr("+", JStr("a")), Expr("+", JArr(<<JInt(1), JInt(1)>>))}

ArgLists == UNION {[1..n -> Slots] : n \in 0..MaxArgs}

\* The operator names written in expressions: built-in ones, "foo" (one a
\* client may register) and "bar" (never registered).
Ops == {"var", "if", "==", "!", "<", "+", "log", "foo", "bar"}
EvaluatorOps == {"+", "foo"}

\* Values that fail the validity rule.
Invalid ==
    {JNull, JBool(TRUE), JInt(1), JStr("a"), JArr(<<>>), JArr(<<JInt(1)>>), JObj(<<>>),
     Expr("!", JNull),
     JObj(<< <<"+", JArr(<<JInt(1)>>)>>, <<"!", JInt(1)>> >>)}

Exprs(ops) ==
    {Expr(op, JArr(args)) : op \in ops, args \in ArgLists}
    \cup {Expr(op, arg) : op \in ops, arg \in Slots \ {JNull}}

Datas == {JNull, JArr(<<JInt(1)>>)}

\* Python values handed to the checkers.
CheckedValues == {JInt(1), JFloat(15), JStr("a"), JArr(<<JInt(1)>>), JNull}
CheckedArgLists == UNION {[1..n -> CheckedValues] : n \in 0..MaxArgs}
CheckedFns == {"op_add", "op_lt", "op_merge"}

\* What a client registers with op_fn, as <<op, fn, evaluate_args, pass_data>>:
\* "foo", or once more the built-in "+".
Registrations ==
    {<<"foo", "op_merge", evaluate_args, pass_data>> :
        evaluate_args \in BOOLEAN, pass_data \in BOOLEAN}
    \cup {<<"foo", "op_not", TRUE, FALSE>>, <<"+", "op_merge", TRUE, FALSE>>}

\* What a client asks Evaluator.op_fn for, as
\* <<op, pass_evaluator, pass_data, evaluate_args>>, and the functions it
\* decorates for an operator name.
EvaluatorRegistrations ==
    {<<"foo", FALSE, FALSE, TRUE>>, <<"foo", FALSE, TRUE, TRUE>>,
     <<"foo", FALSE, FALSE, FALSE>>, <<"foo", TRUE, TRUE, FALSE>>,
     <<"+", FALSE, FALSE, TRUE>>}
EvaluatorFns(op) == IF op = "+" THEN {"op_add"} ELSE {"op_merge", "op_lt"}

\* The keys and indexes written in 'var', 'missing' and 'missing_some', the
\* default written in 'var', and the data they are looked up in: an object
\* {"a": ["b", "x"], "b": 2} and an array ["a", "b"].
VarKeys == {JInt(0), JInt(1), JInt(5), JStr("a"), JStr("x"), JStr(""), JStr("a.1"), JStr("a.5")}
VarDefault == JStr("foo")
VarDatas ==
    {JObj(<< <<"a", JArr(<<JStr("b"), JStr("x")>>)>>, <<"b", JInt(2)>> >>),
     JArr(<<JStr("a"), JStr("b")>>)}
VarExprs ==
    {Expr("var", key) : key \in VarKeys}
    \cup {Expr("var", JArr(<<key>>)) : key \in VarKeys}
    \cup {Expr("var", JArr(<<key, VarDefault>>)) : key \in VarKeys}

MissingKeys == {JStr("a"), JStr("x"), JStr("a.1"), JStr("a.5")}
MissingKeyLists == UNION {[1..n -> MissingKeys] : n \in 0..MaxArgs}
MissingExprs == {Expr("missing", JArr(keys)) : keys \in MissingKeyLists}
MissingSomeExprs ==
    {Expr("missing_some", JArr(<<JInt(count), JArr(keys)>>)) :
        count \in 0..MaxArgs, keys \in MissingKeyLists}

\* The lists written under 'if': conditions and branches that are literals or
\* a 'log' expression, and the longer chains of the tests.
IfSlots == {JBool(FALSE), JBool(TRUE), JStr("a"), JStr("b"), Expr("log", JStr("x"))}
IfLists ==
    UNION {[1..n -> IfSlots] : n \in 2..3}
    \cup {<<JBool(FALSE), JStr("a"), JBool(TRUE), JStr("b"), JStr("x")>>,
          <<JBool(FALSE), JStr("a"), JBool(FALSE), JStr("b"), JBool(FALSE), JStr("x"), JStr("foo")>>,
          <<JBool(FALSE), JStr("a"), JBool(FALSE), Expr("log", JStr("x")), JBool(TRUE), JStr("b")>>}
IfExprs == {Expr("if", JArr(list)) : list \in IfLists}

\* The operand lists written under 'and' and 'or'.
LogicSlots == {JInt(0), JInt(1), JInt(2), Expr("log", JInt(0)), Expr("log", JStr("x"))}
LogicLists == UNION {[1..n -> LogicSlots] : n \in 0..3}
LogicExprs == {Expr(op, JArr(list)) : op \in {"and", "or"}, list \in LogicLists}

\* Expressions handed to eval: ones that read the data, ones that do not,
\* and ones in which a read sits in a part that is or is not reached.
EvalExprs ==
    VarExprs \cup MissingExprs \cup MissingSomeExprs
    \cup Exprs({"+", "!"})
    \cup {Expr("if", JArr(<<JBool(TRUE), JInt(1), Expr("var", JInt(0))>>)),
          Expr("if", JArr(<<Expr("var", JInt(0)), JInt(1), JInt(2)>>)),
          Expr("if", JArr(<<JBool(TRUE), Expr("var", JInt(0))>>)),
          Expr("and", JArr(<<JInt(0), Expr("var", JInt(0))>>)),
          Expr("and", JArr(<<JInt(1), Expr("var", JInt(0))>>)),
          Expr("or", JArr(<<JInt(1), Expr("missing", JArr(<<>>))>>)),
          Expr("+", JArr(<<JInt(1), JInt(2)>>))}

\* The operands written under '==', '===' and '!=='.
EqValues ==
    {JNull, JBool(TRUE), JBool(FALSE), JInt(0), JInt(1), JFloat(10), JFloat(15),
     JStr("1"), JStr("1.0"), JStr("1.5"), JStr("10"), JStr("true"), JStr("a"),
     JArr(<<JInt(1)>>)}
EqExprs(op) == {Expr(op, JArr(<<left, right>>)) : left \in EqValues, right \in EqValues}

\* The lists of numbers written under '<', '<=', '>' and '>=': two to four
\* operands, and the lists of five of the tests.
CompareOps == {"<", "<=", ">", ">="}
CompareValues == {JInt(1), JInt(2), JFloat(15)}
CompareLists ==
    UNION {[1..n -> CompareValues] : n \in 2..4}
    \cup {<<JInt(1), JInt(2), JInt(3), JInt(4), JInt(5)>>,
          <<JInt(1), JInt(2), JInt(3), JInt(5), JInt(4)>>}
CompareExprs == {Expr(op, JArr(list)) : op \in CompareOps, list \in CompareLists}

\* What is written under 'map', 'filter', 'all', 'none' and 'some': a first
\* argument that is a list, is not one, evaluates to one, reads the data the
\* call was made with or fails; a second argument that reads its data, does
\* not, fails or is no expression.
ElementOf == Expr("var", JStr(""))
ArrayArguments ==
    {JArr(<<>>), JArr(<<JInt(1), JInt(2), JInt(3)>>), JArr(<<JInt(0), JStr("a")>>),
     JInt(1), JStr("a"),
     Expr("merge", JArr(<<JInt(1), JInt(2)>>)), Expr("+", JArr(<<JInt(1), JInt(1)>>)),
     Expr("foo", JArr(<<>>)), Expr("bar", JInt(1))}
ElementFns ==
    {ElementOf, Expr("+", JArr(<<ElementOf, JInt(1)>>)), Expr("<", JArr(<<ElementOf, JInt(2)>>)),
     Expr("+", JArr(<<JInt(1), JInt(1)>>)), Expr("!", JArr(<<JInt(1)>>)),
     Expr("foo", JArr(<<JInt(1)>>)), Expr("and", JArr(<<JInt(1), JInt(2)>>)),
     Expr("log", JStr("x")), Expr("bar", JInt(1)), JInt(5)}
EachExprs(op) ==
    {Expr(op, JArr(<<argument, fn>>)) : argument \in ArrayArguments, fn \in ElementFns}

\* What is written under 'reduce': the sum of the tests among the second
\* arguments, an initial value that is a literal, an expression or fails.
ReduceExprs ==
    {Expr("reduce", JArr(<<argument, fn, initial>>)) :
        argument \in {JArr(<<>>), JArr(<<JInt(1), JInt(2), JInt(3)>>), JInt(1),
                      Expr("merge", JArr(<<JInt(1), JInt(2)>>)), Expr("bar", JInt(1))},
        fn \in {Expr("+", JArr(<<Expr("var", JStr("current")), Expr("var", JStr("accumulator"))>>)),
                Expr("var", JStr("accumulator")), Expr("var", JStr("current")),
                Expr("+", JArr(<<JInt(1), JInt(1)>>)), Expr("and", JArr(<<JInt(1), JInt(2)>>)),
                Expr("log", JStr("x")), Expr("bar", JInt(1)), JInt(5)},
        initial \in {JInt(5), Expr("+", JArr(<<JInt(1), JInt(1)>>)), Expr("bar", JInt(1))}}

\* What is written under 'log': a literal, alone or in a list, and
\* sub-expressions.
LogExprs ==
    {Expr("log", arg) :
        arg \in {JStr("foo"), JInt(1), JArr(<<JStr("foo")>>),
                 Expr("+", JArr(<<JInt(1), JInt(2), JInt(3)>>)),
                 JArr(<<Expr("+", JArr(<<JInt(1), JInt(2)>>))>>),
                 Expr("log", JStr("x"))}}

\* The operator written in an expression.
OpOf(json) == json.v[1][1]

\* The argument slots of a valid expression, as the specification words them.
SlotsOf(json) ==
    IF json.v[1][2].t = "list" THEN json.v[1][2].v ELSE <<json.v[1][2]>>

Call(module, kind, json, data, fn, args) ==
    [module |-> module, kind |-> kind, json |-> json, data |-> data,
     fn |-> fn, args |-> args]

Calls ==
    {Call("jsonlogic", "is_jsonlogic", json, JNull, "", <<>>) :
        json \in Invalid \cup Slots}
    \cup {Call("jsonlogic", "op_args", json, JNull, "", <<>>) :
        json \in Invalid \cup Slots}
    \cup {Call("jsonlogic", "evaluate", json, data, "", <<>>) :
        json \in Invalid \cup Exprs(Ops), data \in Datas}
    \cup {Call("jsonlogic", "evaluate", json, data, "", <<>>) :
        json \in VarExprs \cup MissingExprs \cup MissingSomeExprs, data \in VarDatas}
    \cup {Call("jsonlogic", "evaluate", json, JNull, "", <<>>) :
        json \in IfExprs \cup LogicExprs}
    \cup {Call("jsonlogic", "evaluate", json, JNull, "", <<>>) :
        json \in EqExprs("==") \cup EqExprs("===") \cup EqExprs("!==") \cup CompareExprs}
    \cup {Call("jsonlogic", "evaluate", json, data, "", <<>>) :
        json \in EachExprs("map"), data \in Datas}
    \cup {Call("jsonlogic", "evaluate", json, JNull, "", <<>>) : json \in EachExprs("filter")}
    \cup {Call("jsonlogic", "evaluate", json, JNull, "", <<>>) :
        json \in LogExprs \cup ReduceExprs \cup EachExprs("all") \cup EachExprs("none") \cup EachExprs("some")}
    \cup {Call("jsonlogic", "eval", json, NullData, "", <<>>) : json \in EvalExprs}
    \cup {Call("jsonlogic", "maybe_evaluate", json, data, "", <<>>) :
        json \in Invalid \cup Slots \cup Exprs({"foo"}), data \in Datas}
    \cup {Call("jsonlogic", "type_check", JNull, JNull, fn, args) :
        fn \in CheckedFns, args \in CheckedArgLists}
    \cup {Call("jsonlogic.evaluate", "evaluate", json, data, "", <<>>) :
        json \in Invalid \cup Exprs(EvaluatorOps) \cup {Expr("bar", JInt(1))}, data \in Datas}
    \cup {Call("jsonlogic.evaluate", "maybe_evaluate", json, data, "", <<>>) :
        json \in Invalid \cup Slots \cup Exprs({"foo"}), data \in Datas}
    \cup {Call("jsonlogic.evaluate", "_type_check", JNull, JNull, fn, args) :
        fn \in CheckedFns, args \in CheckedArgLists}

\* What the last step did: by names the function called, op the operator a
\* registration was for, out the outcome.
Result(by, op, out) == [by |-> by, op |-> op, out |-> out]

----------------------------------------------------------------------------
(* The state machine *)

\* After import: the registry of the functional module holds its built-in
\* operators, Evaluator._op_fns is empty; the client is about to make call.
Init ==
    /\ _op_fns = Registered(Builtins)
    /\ Evaluator_op_fns = <<>>
    /\ decorators = {}
    /\ call \in Calls
    /\ result = Result("", "", Return(JNull))
    /\ frames = <<>>

CallIsJsonlogic ==
    /\ call.module = "jsonlogic" /\ call.kind = "is_jsonlogic"
    /\ result' = Result("is_jsonlogic", "", Return(JBool(is_jsonlogic(call.json))))
    /\ UNCHANGED <<_op_fns, Evaluator_op_fns, decorators, call, frames>>

CallOpArgs ==
    /\ call.module = "jsonlogic" /\ call.kind = "op_args"
    /\ LET oa == op_args(call.json)
       IN result' = Result("op_args", "",
                           IF oa.ok
                           THEN Return(JArr(<<JStr(oa.op), JArr(oa.args)>>))
                           ELSE Raise(oa.err))
    /\ UNCHANGED <<_op_fns, Evaluator_op_fns, decorators, call, frames>>

\* An evaluate that leaves the registry emptied behind it.
CallEvaluate_clearing_registry ==
    /\ call.module = "jsonlogic" /\ call.kind = "evaluate"
    /\ result' = Result("evaluate", "", evaluate(call.data, call.json))
    /\ _op_fns' = <<>>
    /\ UNCHANGED <<Evaluator_op_fns, decorators, call, frames>>

CallEvaluate ==
    /\ call.module = "jsonlogic" /\ call.kind = "evaluate"
    /\ result' = Result("evaluate", "", evaluate(call.data, call.json))
    /\ UNCHANGED <<_op_fns, Evaluator_op_fns, decorators, call, frames>>

CallEval ==
    /\ call.module = "jsonlogic" /\ call.kind = "eval"
    /\ result' = Result("eval", "", eval(call.json))
    /\ UNCHANGED <<_op_fns, Evaluator_op_fns, decorators, call, frames>>

CallMaybeEvaluate ==
    /\ call.module = "jsonlogic" /\ call.kind = "maybe_evaluate"
    /\ result' = Result("maybe_evaluate", "",
                        maybe_evaluate(call.data, JSONPath_root, call.json))
    /\ UNCHANGED <<_op_fns, Evaluator_op_fns, decorators, call, frames>>

CallTypeCheck ==
    /\ call.module = "jsonlogic" /\ call.kind = "type_check"
    /\ result' = Result("type_check", "", type_check_wrapper(call.fn, call.args))
    /\ UNCHANGED <<_op_fns, Evaluator_op_fns, decorators, call, frames>>

\* @op_fn(op, evaluate_args=..., pass_data=...) on fn
CallOpFn(op, fn, evaluate_args, pass_data) ==
    /\ call.module = "jsonlogic"
    /\ LET r == op_fn_decorator(_op_fns, op, fn, evaluate_args, pass_data)
       IN /\ _op_fns' = r.registry
          /\ result' = Result("op_fn", op, r.out)
    /\ UNCHANGED <<Evaluator_op_fns, decorators, call, frames>>

CallEvaluatorEvaluate ==
    /\ call.module = "jsonlogic.evaluate" /\ call.kind = "evaluate"
    /\ result' = Result("Evaluator.evaluate", "", Evaluator_evaluate(call.json, call.data))
    /\ UNCHANGED <<_op_fns, Evaluator_op_fns, decorators, call, frames>>

CallEvaluatorMaybeEvaluate ==
    /\ call.module = "jsonlogic.evaluate" /\ call.kind = "maybe_evaluate"
    /\ result' = Result("Evaluator.maybe_evaluate", "",
                        Evaluator_maybe_evaluate(call.json, call.data))
    /\ UNCHANGED <<_op_fns, Evaluator_op_fns, decorators, call, frames>>

CallEvaluatorTypeCheck ==
    /\ call.module = "jsonlogic.evaluate" /\ call.kind = "_type_check"
    /\ LET checked == Evaluator_type_check(call.fn, call.args)
       IN result' = Result("Evaluator._type_check", "",
                           IF checked.ok THEN Return(JNull) ELSE Raise(checked.err))
    /\ UNCHANGED <<_op_fns, Evaluator_op_fns, decorators, call, frames>>

\* Evaluator.op_fn(op, pass_evaluator, pass_data, evaluate_args): the client
\* keeps the decorator returned.
CallEvaluatorOpFn(op, pass_evaluator, pass_data, evaluate_args) ==
    /\ call.module = "jsonlogic.evaluate"
    /\ Cardinality(decorators) < MaxDecorators
    /\ LET r == Evaluator_op_fn(Evaluator_op_fns, op, pass_evaluator, pass_data, evaluate_args)
       IN /\ decorators' = IF r.ok
                           THEN decorators \cup
                                   {Decorator(op, pass_evaluator, pass_data, evaluate_args)}
                           ELSE decorators
          /\ result' = Result("Evaluator.op_fn", op,
                              IF r.ok THEN Return(JNull) ELSE Raise(r.err))
    /\ UNCHANGED <<_op_fns, Evaluator_op_fns, call, frames>>

\* A decorator the client holds, applied to fn.
CallEvaluatorDecorator(d, fn) ==
    /\ call.module = "jsonlogic.evaluate"
    /\ d \in decorators
    /\ Evaluator_op_fns' = Evaluator_decorator(Evaluator_op_fns, d, fn)
    /\ result' = Result("Evaluator.op_fn.decorator", d.op, Return(JStr(fn)))
    /\ UNCHANGED <<_op_fns, decorators, call, frames>>

Next ==
    \/ CallIsJsonlogic
    \/ CallOpArgs
    \/ CallEvaluate
    \/ CallEval
    \/ CallMaybeEvaluate
    \/ CallTypeCheck
    \/ \E r \in Registrations : CallOpFn(r[1], r[2], r[3], r[4])
    \/ CallEvaluatorEvaluate
    \/ CallEvaluatorMaybeEvaluate
    \/ CallEvaluatorTypeCheck
    \/ \E r \in EvaluatorRegistrations : CallEvaluatorOpFn(r[1], r[2], r[3], r[4])
    \/ \E d \in decorators : \E fn \in EvaluatorFns(d.op) :
          CallEvaluatorDecorator(d, fn)

Spec == Init /\ [][Next]_vars

----------------------------------------------------------------------------
(* An evaluation one loop turn at a time: the recursion of op_if on the rest  *)
(* of its list, the while loops of op_and and op_or, the comprehensions of    *)
(* the array operators and the for loop of op_reduce. A turn evaluates the    *)
(* slot it is at in one step.                                                 *)

\* The operator functions that loop, and what a frame of one holds: args is
\* what the loop has left, results what it has collected (the accumulator,
\* for op_reduce).
LoopFns ==
    {"op_if", "op_and", "op_or", "op_map", "op_filter", "op_reduce",
     "op_all", "op_none", "op_some"}
Frame(fn, args, results) == [fn |-> fn, args |-> args, results |-> results]

\* args = args[1:] that drops nothing.
op_and_rest_keeping(args) == args

\* args = args[1:]
op_and_rest(args) == Tail(args)

\* The function evaluate reaches for the call's expression, when it is one
\* that loops and the call binds to its parameters.
LoopFn(c) ==
    IF ~is_jsonlogic(c.json)
    THEN ""
    ELSE IF OpOf(c.json) \notin DOMAIN _op_fns
    THEN ""
    ELSE LET entry == _op_fns[OpOf(c.json)]
         IN IF entry.fn \in LoopFns /\ ~entry.evaluate_args /\ entry.pass_data
               /\ Bind(Signature(entry.fn),
                       <<c.data, JPath(JSONPath_root)>> \o SlotsOf(c.json)).ok
            THEN entry.fn
            ELSE ""

\* What an array operator does before its loop: the first argument (and the
\* initial value of 'reduce') evaluated, and the checks.
BeforeReduce(argument, initial, checked) ==
    IF ~argument.ok THEN argument ELSE IF ~initial.ok THEN initial ELSE checked

BeforeChecked(data, fn, args, argument) ==
    IF fn # "op_reduce"
    THEN CheckedArgument(fn, argument, args[2])
    ELSE BeforeReduce(argument,
                      maybe_evaluate(data, join_path(JSONPath_root, "2"), args[3]),
                      CheckedArgument(fn, argument, args[2]))

BeforeLoop(data, fn, args) ==
    BeforeChecked(data, fn, args, maybe_evaluate(data, join_path(JSONPath_root, "0"), args[1]))

\* The call returns or raises: what is kept of the outcome is the value or
\* the exception.
Returned(out) ==
    /\ result' = Result("evaluate", "", [out EXCEPT !.log = <<>>, !.calls = <<>>, !.evals = <<>>])
    /\ frames' = <<>>

\* The expressions evaluated turn by turn: 'if' chains of up to three
\* conditions, 'and' and 'or' of up to three operands, the array operators
\* over arrays of up to three elements, and expressions of no loop.
RunExprs ==
    {Expr("if", JArr(list)) :
        list \in {l \in IfLists : Len(l) > 3}
                 \cup UNION {[1..n -> {JBool(FALSE), JBool(TRUE), Expr("log", JStr("x"))}] :
                                n \in 2..3}}
    \cup {Expr(op, JArr(list)) :
            op \in {"and", "or"},
            list \in UNION {[1..n -> {JInt(0), JInt(1), Expr("bar", JInt(1))}] : n \in 0..3}}
    \cup {Expr(op, JArr(<<argument, fn>>)) :
            op \in {"map", "filter", "all", "none", "some"},
            argument \in {JArr(<<>>), JArr(<<JInt(1), JInt(2), JInt(3)>>), JInt(1),
                          Expr("bar", JInt(1))},
            fn \in {Expr("log", JStr("x")), Expr("bar", JInt(1)), ElementOf, JInt(5)}}
    \cup {e \in ReduceExprs :
            SlotsOf(e)[2] \in {Expr("and", JArr(<<JInt(1), JInt(2)>>)),
                               Expr("var", JStr("accumulator")), JInt(5)}}
    \cup {Expr("var", JStr("a.1")), Expr("log", JStr("x")), Expr("bar", JInt(1)), JNull}

\* The calls of evaluate made in this specification.
RunCalls == {Call("jsonlogic", "evaluate", json, JNull, "", <<>>) : json \in RunExprs}

RunInit ==
    /\ _op_fns = Registered(Builtins)
    /\ Evaluator_op_fns = <<>>
    /\ decorators = {}
    /\ call = Call("", "", JNull, JNull, "", <<>>)
    /\ result = Result("", "", Return(JNull))
    /\ frames = <<>>

\* evaluate(data, jsonlogic) up to the first turn of a loop, or up to its end
\* when the expression is one of no looping operator.
RunArrayOperator(c, fn, args, before) ==
    IF ~before.ok
    THEN Returned(before)
    ELSE /\ frames' = <<Frame(fn, before.val.v,
                               IF fn = "op_reduce"
                               THEN <<maybe_evaluate(c.data, join_path(JSONPath_root, "2"),
                                                     args[3]).val>>
                               ELSE <<>>)>>
         /\ UNCHANGED result

RunOperator(c, fn, args) ==
    CASE fn = "" -> Returned(evaluate(c.data, c.json))
      [] fn \in {"op_if", "op_and", "op_or"} ->
            /\ frames' = <<Frame(fn, args, <<>>)>>
            /\ UNCHANGED result
      [] OTHER -> RunArrayOperator(c, fn, args, BeforeLoop(c.data, fn, args))

RunEvaluate ==
    /\ frames = <<>> /\ call.kind = ""
    /\ call' \in RunCalls
    /\ RunOperator(call', LoopFn(call'), SlotsOf(call'.json))
    /\ UNCHANGED <<_op_fns, Evaluator_op_fns, decorators>>

\* One call of op_if: the condition, then its branch, the end of the list, or
\* op_if(data, path, *elses).
RunIfTurn(if_arg, args, elses) ==
    IF ~if_arg.ok
    THEN Returned(if_arg)
    ELSE IF Truthy(if_arg.val)
    THEN Returned(maybe_evaluate(call.data, join_path(JSONPath_root, "1"), args[2]))
    ELSE IF Len(elses) = 0
    THEN Returned(Return(JNull))
    ELSE IF Len(elses) = 1
    THEN Returned(maybe_evaluate(call.data, join_path(JSONPath_root, "2"), args[2]))
    ELSE /\ frames' = Append(frames, Frame("op_if", elses, <<>>))
         /\ UNCHANGED result

RunIf ==
    /\ frames # <<>> /\ frames[Len(frames)].fn = "op_if"
    /\ RunIfTurn(maybe_evaluate(call.data, join_path(JSONPath_root, "0"),
                                frames[Len(frames)].args[1]),
                 frames[Len(frames)].args,
                 SubSeq(frames[Len(frames)].args, 3, Len(frames[Len(frames)].args)))
    /\ UNCHANGED <<_op_fns, Evaluator_op_fns, decorators, call>>

\* One turn of the while loop of op_and or op_or, or the return after it.
RunAndOrTurn(fn, args, value) ==
    IF Len(args) > 1
    THEN IF ~value.ok
         THEN Returned(value)
         ELSE IF Truthy(value.val) = (fn = "op_or")
         THEN Returned(value)
         ELSE /\ frames' = <<Frame(fn, op_and_rest(args), <<>>)>>
              /\ UNCHANGED result
    ELSE Returned(value)

RunAndOr ==
    /\ frames # <<>> /\ frames[1].fn \in {"op_and", "op_or"}
    /\ RunAndOrTurn(frames[1].fn, frames[1].args,
                    maybe_evaluate(call.data,
                                   join_path(JSONPath_root,
                                             ToString(Len(SlotsOf(call.json))
                                                      - Len(frames[1].args))),
                                   frames[1].args[1]))
    /\ UNCHANGED <<_op_fns, Evaluator_op_fns, decorators, call>>

\* One element of the comprehension of op_map, op_filter, op_all, op_none or
\* op_some, or the return of what it collected.
RunComprehensionTurn(fn, args, results, value) ==
    IF ~value.ok
    THEN Returned(value)
    ELSE /\ frames' = <<Frame(fn, Tail(args),
                               IF fn # "op_filter"
                               THEN Append(results, value.val)
                               ELSE IF Truthy(value.val)
                               THEN Append(results, args[1])
                               ELSE results)>>
         /\ UNCHANGED result

RunComprehension ==
    /\ frames # <<>>
    /\ frames[1].fn \in {"op_map", "op_filter", "op_all", "op_none", "op_some"}
    /\ LET fn == frames[1].fn
           results == frames[1].results
       IN IF frames[1].args = <<>>
          THEN Returned(Return(
                  CASE fn = "op_map" -> JArr(results)
                    [] fn = "op_filter" -> JArr(results)
                    [] fn = "op_all" -> JBool(\A i \in 1..Len(results) : Truthy(results[i]))
                    [] OTHER -> JBool(~\E i \in 1..Len(results) : Truthy(results[i]))))
          ELSE RunComprehensionTurn(
                  fn, frames[1].args, results,
                  _evaluate(frames[1].args[1],
                            join_path(JSONPath_root,
                                      IF fn \in {"op_map", "op_filter"}
                                      THEN "1" ELSE ToString(Len(results))),
                            SlotsOf(call.json)[2]))
    /\ UNCHANGED <<_op_fns, Evaluator_op_fns, decorators, call>>

\* One turn of the for loop of op_reduce, or the return of the accumulator.
RunReduceTurn(args, value) ==
    IF ~value.ok
    THEN Returned(value)
    ELSE /\ frames' = <<Frame("op_reduce", Tail(args), <<value.val>>)>>
         /\ UNCHANGED result

RunReduce ==
    /\ frames # <<>> /\ frames[1].fn = "op_reduce"
    /\ IF frames[1].args = <<>>
       THEN Returned(Return(frames[1].results[1]))
       ELSE RunReduceTurn(frames[1].args,
                          _evaluate(Acc(frames[1].args[1], frames[1].results[1]),
                                    join_path(JSONPath_root, "1"), SlotsOf(call.json)[2]))
    /\ UNCHANGED <<_op_fns, Evaluator_op_fns, decorators, call>>

RunNext ==
    \/ RunEvaluate
    \/ RunIf
    \/ RunAndOr
    \/ RunComprehension
    \/ RunReduce

\* The interpreter runs one thread: a call that can take its next turn takes
\* it.
RunSpec == RunInit /\ [][RunNext]_vars /\ WF_vars(RunNext)

----------------------------------------------------------------------------
(* Properties *)

\* The validity rule as the specification words it: an object with exactly
\* one key whose value is not null.
Valid(json) ==
    /\ json.t = "dict"
    /\ Cardinality(Keys(json.v)) = 1
    /\ Lookup(json.v, CHOOSE key \in Keys(json.v) : TRUE).t # "NoneType"

\* C1: is_jsonlogic returns true exactly for an object with one key whose
\* value is not null; false for a non-object, the empty object, an object of
\* two keys and a one-key object with a null value.
C1_IsJsonlogicIffSingleKeyNonNull ==
    result.by = "is_jsonlogic" =>
        /\ result.out.ok
        /\ result.out.val = JBool(Valid(call.json))

\* C1 witness: is_jsonlogic has returned True for the expression {"bar": 1}.
C1_Witness ==
    /\ result.by = "is_jsonlogic"
    /\ call.json = Expr("bar", JInt(1))
    /\ result.out.val = JBool(TRUE)

\* C2: for a valid {op: v}, op_args gives back op, and the elements of v in
\* order when v is an array, the one-element list [v] when it is not.
C2_OpArgsRoundTrip ==
    (result.by = "op_args" /\ Valid(call.json)) =>
        LET op == call.json.v[1][1]
            v == call.json.v[1][2]
        IN /\ result.out.ok
           /\ result.out.val =
                JArr(<<JStr(op), JArr(IF v.t = "list" THEN v.v ELSE <<v>>)>>)

\* C2 witness: op_args has split an expression whose value is an array of
\* two arguments.
C2_Witness ==
    /\ result.by = "op_args"
    /\ call.json = Expr("+", JArr(<<JInt(1), JInt(1)>>))
    /\ result.out.val = JArr(<<JStr("+"), JArr(<<JInt(1), JInt(1)>>)>>)

\* C3: evaluate on a value that fails the validity rule fails with a
\* MalformedExpression error and enters no operator implementation.
C3_InvalidTopLevelIsMalformed ==
    (result.by \in {"evaluate", "Evaluator.evaluate"} /\ ~Valid(call.json)) =>
        /\ ~result.out.ok
        /\ result.out.err.type = "MalformedExpression"
        /\ result.out.calls = <<>>

\* The operator names registered with the evaluator the client's call is on.
RegisteredNames ==
    IF call.module = "jsonlogic" THEN DOMAIN _op_fns ELSE DOMAIN Evaluator_op_fns

\* C4: every expression evaluation reached, at the top level or nested, whose
\* operator has no registered implementation ended with an
\* UnrecognizedOperand failure that carries the operator name and the path of
\* that expression, and that failure is the outcome of the top-level call.
C4_UnknownOperatorCarriesNameAndPath ==
    result.by \in {"evaluate", "Evaluator.evaluate"} =>
        \A i \in 1..Len(result.out.evals) :
            LET e == result.out.evals[i]
            IN (Valid(e.jsonlogic) /\ e.jsonlogic.v[1][1] \notin RegisteredNames) =>
                /\ ~e.ok
                /\ e.err.type = "UnrecognizedOperand"
                /\ e.err.op = e.jsonlogic.v[1][1]
                /\ e.err.where = e.path
                /\ result.out.err = e.err

RECURSIVE CallsIn(_, _)
CallsIn(outs, n) ==
    IF n = 0 THEN 0 ELSE Len(outs[n].calls) + CallsIn(outs, n - 1)

\* What maybe_evaluate gives for each slot of the client's expression, in
\* order, against the client's data.
Resolved ==
    LET slots == SlotsOf(call.json)
    IN [i \in 1..Len(slots) |->
            IF call.module = "jsonlogic"
            THEN maybe_evaluate(call.data,
                                <<"$", call.json.v[1][1], ToString(i - 1)>>, slots[i])
            ELSE Evaluator_maybe_evaluate(slots[i], call.data)]

\* The arguments the implementation of the client's expression is to receive
\* under the policies evaluate_args and pass_data (the functional evaluator
\* passes the path along with the data; the class puts the evaluator in front
\* when pass_evaluator is set).
Received(entry) ==
    LET slots == SlotsOf(call.json)
        list == IF entry.evaluate_args
                THEN [i \in 1..Len(slots) |-> Resolved[i].val]
                ELSE slots
    IN IF call.module = "jsonlogic"
       THEN (IF entry.pass_data THEN <<call.data, JPath(JSONPath_root)>> ELSE <<>>) \o list
       ELSE (IF entry.pass_evaluator THEN <<Self>> ELSE <<>>)
            \o (IF entry.pass_data THEN <<call.data>> ELSE <<>>) \o list

\* The implementations entered while the dispatcher resolved the slots.
EnteredBefore(entry) ==
    IF entry.evaluate_args
    THEN CallsIn(Resolved, Len(SlotsOf(call.json)))
    ELSE 0

\* The registry entry of the operator of the client's expression.
Entry ==
    IF call.module = "jsonlogic"
    THEN _op_fns[call.json.v[1][1]]
    ELSE Evaluator_op_fns[call.json.v[1][1]]

Accepts(annotation, value) ==
    annotation.k = "Any" \/ \E c \in annotation.ts : IsInstance(value, c)

\* An argument list satisfies a signature: the count fits and every
\* positional and variadic argument fits the annotation of its parameter.
SatisfiesSignature(sig, args) ==
    LET bound == Bind(sig, args)
    IN /\ bound.ok
       /\ \A i \in 1..Len(bound.arguments) :
            \A j \in 1..Len(bound.arguments[i].values) :
                Accepts(bound.arguments[i].param.ann, bound.arguments[i].values[j])

\* An argument list satisfies the declared shapes of fn: one of its overloads
\* when it has some, else its signature.
Satisfies(fn, args) ==
    IF Len(Overloads(fn)) > 0
    THEN \E i \in 1..Len(Overloads(fn)) : SatisfiesSignature(Overloads(fn)[i], args)
    ELSE SatisfiesSignature(Signature(fn), args)

\* C7: when the final argument list of an operator application does not
\* satisfy the declared shapes of the implementation (count or types),
\* evaluate fails with a TypeError and the implementation is not run.
C7_ShapeMismatchIsTypeError ==
    (/\ result.by \in {"evaluate", "Evaluator.evaluate"}
     /\ Valid(call.json)
     /\ call.json.v[1][1] \in RegisteredNames
     /\ Entry.evaluate_args => \A i \in DOMAIN Resolved : Resolved[i].ok
     /\ ~Satisfies(Entry.fn, Received(Entry))) =>
        /\ ~result.out.ok
        /\ result.out.err.type = "TypeError"
        /\ Len(result.out.calls) = EnteredBefore(Entry)

\* The failure the checkers raise when no overload matches.
NoMatchingOverload(err) ==
    /\ err.type = "TypeError"
    /\ err.msg \in {"No matching overload", "No matching overload found for args"}

\* C8: for a function with overloads the checker accepts an argument list
\* exactly when one of the signatures matches it completely (count, every
\* positional and every variadic argument); a signature the list violates is
\* passed over, and when none matches the check fails with the
\* no-matching-overload failure, the function not run.
C8_OverloadsTriedInOrder ==
    (/\ result.by \in {"type_check", "Evaluator._type_check"}
     /\ Len(Overloads(call.fn)) > 0) =>
        IF Satisfies(call.fn, call.args)
        THEN IF result.by = "type_check"
             THEN /\ result.out.calls # <<>>
                  /\ result.out.calls[1] = [fn |-> call.fn, args |-> call.args]
             ELSE result.out.ok
        ELSE /\ ~result.out.ok
             /\ NoMatchingOverload(result.out.err)
             /\ result.out.calls = <<>>

\* C9: a registration of a name the registry holds fails with an error and
\* leaves the registry as it is, every name keeping the implementation
\* registered first; a registration of a new name adds that one entry.
C9_DuplicateRegistrationFails ==
    [][/\ \A op \in DOMAIN _op_fns :
            op \in DOMAIN _op_fns' /\ _op_fns'[op] = _op_fns[op]
       /\ \A op \in DOMAIN Evaluator_op_fns :
            op \in DOMAIN Evaluator_op_fns' /\ Evaluator_op_fns'[op] = Evaluator_op_fns[op]
       /\ (result'.by = "op_fn" /\ result'.op \in DOMAIN _op_fns) =>
            (~result'.out.ok /\ _op_fns' = _op_fns)
       /\ (result'.by = "Evaluator.op_fn.decorator" /\ result'.op \in DOMAIN Evaluator_op_fns) =>
            (~result'.out.ok /\ Evaluator_op_fns' = Evaluator_op_fns)
       /\ (result'.by = "op_fn" /\ result'.op \notin DOMAIN _op_fns) =>
            DOMAIN _op_fns' = DOMAIN _op_fns \cup {result'.op}
       /\ (result'.by = "Evaluator.op_fn.decorator" /\ result'.op \notin DOMAIN Evaluator_op_fns) =>
            DOMAIN Evaluator_op_fns' = DOMAIN Evaluator_op_fns \cup {result'.op}
      ]_vars

\* The slots of the client's expression whose evaluation fails.
FailingSlots == {i \in DOMAIN Resolved : ~Resolved[i].ok}

\* C10: when the evaluation of a sub-expression fails, every evaluation that
\* ends after it fails with the same failure, the top-level call included:
\* nothing is caught, defaulted or continued; and when slots of an eager
\* operator fail, the failure reported is that of the leftmost one.
C10_AllOrNothing ==
    result.by \in {"evaluate", "Evaluator.evaluate"} =>
        /\ \A i \in 1..Len(result.out.evals) :
              ~result.out.evals[i].ok =>
                  /\ ~result.out.ok
                  /\ result.out.val = JNull
                  /\ result.out.err = result.out.evals[i].err
                  /\ \A j \in i..Len(result.out.evals) :
                        /\ ~result.out.evals[j].ok
                        /\ result.out.evals[j].err = result.out.evals[i].err
        /\ (/\ Valid(call.json)
            /\ call.json.v[1][1] \in RegisteredNames
            /\ Entry.evaluate_args
            /\ FailingSlots # {}) =>
              /\ ~result.out.ok
              /\ result.out.err =
                    Resolved[CHOOSE i \in FailingSlots : \A j \in FailingSlots : i <= j].err

\* C10 witness: {"+": [{"bar": 1}, {"+": "a"}]}, both slots failing, has
\* failed with the failure of slot 0, the unknown operator "bar", and slot 1
\* was not evaluated.
C10_Witness ==
    /\ result.by = "evaluate"
    /\ call.json = Expr("+", JArr(<<Expr("bar", JInt(1)), Expr("+", JStr("a"))>>))
    /\ ~result.out.ok
    /\ result.out.err = UnrecognizedOperand(<<"$", "+", "0">>, "bar")
    /\ Len(result.out.evals) = 2
    /\ result.out.calls = <<>>

\* The operators that read the data.
DataOps == {"var", "missing", "missing_some"}

\* The evaluation whose outcome is out reached an expression of an operator
\* that reads the data.
ReachesDataRead(out) ==
    \E i \in 1..Len(out.evals) : OpOf(out.evals[i].jsonlogic) \in DataOps

\* The outcomes a and b return the same value or raise the same exception.
SameResult(a, b) == a.ok = b.ok /\ a.val = b.val /\ a.err = b.err

\* C11: eval (evaluation against the null-data context) fails with
\* NullDataAccess whenever the evaluation reaches a 'var', 'missing' or
\* 'missing_some' expression, and gives what evaluate gives, against any
\* data, for an expression whose evaluation reaches none.
C11_PureEvaluation ==
    result.by = "eval" =>
        IF ReachesDataRead(result.out)
        THEN ~result.out.ok /\ result.out.err.type = "NullDataAccess"
        ELSE \A data \in Datas \cup VarDatas :
                SameResult(result.out, evaluate(data, call.json))

\* The segments of a string key split on '.', a segment that parses as an
\* integer being an index.
KeySegments(key) ==
    CASE key = ""    -> <<>>
      [] key = "a.1" -> <<JStr("a"), JInt(1)>>
      [] key = "a.5" -> <<JStr("a"), JInt(5)>>
      [] OTHER       -> <<JStr(key)>>

\* One segment applied to a value: the member of an object under a key it
\* has, the element of an array at an index within it.
Descend(value, segment) ==
    IF value.t = "dict" /\ segment.t = "str" /\ segment.v \in Keys(value.v)
    THEN [found |-> TRUE, val |-> Lookup(value.v, segment.v)]
    ELSE IF value.t = "list" /\ segment.t = "int"
            /\ 0 <= segment.v /\ segment.v < Len(value.v)
    THEN [found |-> TRUE, val |-> value.v[segment.v + 1]]
    ELSE [found |-> FALSE, val |-> JNull]

\* The segments applied one at a time from value.
RECURSIVE Locate(_, _)
Locate(value, segments) ==
    IF Len(segments) = 0
    THEN [found |-> TRUE, val |-> value]
    ELSE LET step == Descend(value, segments[1])
         IN IF step.found THEN Locate(step.val, Tail(segments)) ELSE step

\* What a key or index locates in the data, as the operator 'var' is
\* described.
Resolve(data, key) ==
    IF key.t = "str" THEN Locate(data, KeySegments(key.v)) ELSE Descend(data, key)

\* C12: 'var' with a key that is present returns the value at that key: a
\* string key split on '.' and followed one segment at a time, an integer key
\* the array element at that index, the empty string the whole data.
C12_VarReturnsValueAtKey ==
    (result.by = "evaluate" /\ call.json \in VarExprs
        /\ Resolve(call.data, SlotsOf(call.json)[1]).found) =>
            /\ result.out.ok
            /\ result.out.val = Resolve(call.data, SlotsOf(call.json)[1]).val

\* C13: 'var' with a key or index that cannot be resolved in the data returns
\* the default when a second argument is given and null when it is not; it
\* does not fail.
C13_VarFallsBackToDefault ==
    (result.by = "evaluate" /\ call.json \in VarExprs
        /\ ~Resolve(call.data, SlotsOf(call.json)[1]).found) =>
            /\ result.out.ok
            /\ result.out.val = IF Len(SlotsOf(call.json)) = 2
                                THEN SlotsOf(call.json)[2]
                                ELSE JNull

\* The keys of a list that are absent from the data, in their order.
AbsentKeys(data, keys) == SelectSeq(keys, LAMBDA key : ~Resolve(data, key).found)

\* C14: 'missing' returns, in their original order, exactly the keys that are
\* absent from the data, absence being that 'var' would fall back to its
\* default.
C14_MissingReturnsAbsentKeys ==
    (result.by = "evaluate" /\ call.json \in MissingExprs) =>
        /\ result.out.ok
        /\ result.out.val = JArr(AbsentKeys(call.data, SlotsOf(call.json)))

\* C15: 'missing_some' returns the empty list when the number of keys present
\* in the data is at least the minimum count, and the list 'missing' returns
\* for the keys otherwise.
C15_MissingSomeThreshold ==
    (result.by = "evaluate" /\ call.json \in MissingSomeExprs) =>
        LET count == SlotsOf(call.json)[1].v
            keys == SlotsOf(call.json)[2].v
            absent == AbsentKeys(call.data, keys)
        IN /\ result.out.ok
           /\ result.out.val = IF Len(keys) - Len(absent) >= count
                               THEN JArr(<<>>)
                               ELSE JArr(absent)

\* What a slot evaluates to when it is reached: its value and what it prints.
SlotValue(slot) == maybe_evaluate(call.data, JSONPath_root, slot)

\* The slots of an 'if' list [c1, b1, c2, b2, ..., else?] that are reached,
\* in order, from the condition at index i: the conditions up to the first
\* truthy one and its branch, or the trailing else after the last condition.
RECURSIVE IfReached(_, _)
IfReached(list, i) ==
    IF i > Len(list)
    THEN <<>>
    ELSE IF i = Len(list)
    THEN <<i>>
    ELSE IF Truthy(SlotValue(list[i]).val)
    THEN <<i, i + 1>>
    ELSE <<i>> \o IfReached(list, i + 2)

\* The slot of an 'if' list whose value is returned: the branch of the first
\* truthy condition or the trailing else; 0 when there is none.
IfSelected(list) ==
    LET reached == IfReached(list, 1)
        last == reached[Len(reached)]
    IN IF last % 2 = 0 \/ last = Len(list) THEN last ELSE 0

\* What the slots at the indexes print, in order.
RECURSIVE LogOf(_, _)
LogOf(list, indexes) ==
    IF Len(indexes) = 0
    THEN <<>>
    ELSE SlotValue(list[indexes[1]]).log \o LogOf(list, Tail(indexes))

\* C16: 'if' on [c1, b1, c2, b2, ..., else?] returns the evaluated branch of
\* the first truthy condition; with no truthy condition, the evaluated
\* trailing else when the list has one and null when it has none.
C16_IfSelectsBranch ==
    (result.by = "evaluate" /\ call.json \in IfExprs) =>
        LET list == SlotsOf(call.json)
            selected == IfSelected(list)
        IN /\ result.out.ok
           /\ result.out.val = IF selected = 0 THEN JNull ELSE SlotValue(list[selected]).val

\* C17: 'if' evaluates no branch but the selected one and no condition after
\* the first truthy one: it prints no more than the 'log' expressions among
\* the conditions reached and the selected branch print.
C17_IfEvaluatesOnlyReached ==
    (result.by = "evaluate" /\ call.json \in IfExprs) =>
        LET list == SlotsOf(call.json)
        IN Len(result.out.log) <= Len(LogOf(list, IfReached(list, 1)))

\* The operands of an 'and' / 'or' list that are falsy (truthy = FALSE) or
\* truthy (truthy = TRUE) when evaluated.
OperandsThatAre(list, truthy) ==
    {i \in 1..Len(list) : Truthy(SlotValue(list[i]).val) = truthy}

\* The least index of a non-empty set of indexes.
First(indexes) == CHOOSE i \in indexes : \A j \in indexes : i <= j

\* 1, 2, ..., n
UpTo(n) == [i \in 1..n |-> i]

\* The operator op stops at the first operand that is falsy ('and': truthy =
\* FALSE) or truthy ('or': truthy = TRUE): it returns that operand's value,
\* having evaluated the operands up to it in order and none after it.
StopsAtFirst(op, truthy) ==
    (result.by = "evaluate" /\ call.json \in LogicExprs /\ OpOf(call.json) = op
        /\ OperandsThatAre(SlotsOf(call.json), truthy) # {}) =>
        LET list == SlotsOf(call.json)
            first == First(OperandsThatAre(list, truthy))
        IN /\ result.out.ok
           /\ result.out.val = SlotValue(list[first]).val
           /\ result.out.log = LogOf(list, UpTo(first))

\* C18: 'and' evaluates its operands left to right and returns the value of
\* the first that evaluates falsy, evaluating none after it; 'or' does so
\* with the first operand that evaluates truthy.
C18_ShortCircuit == StopsAtFirst("and", FALSE) /\ StopsAtFirst("or", TRUE)

\* C19: 'and' returns the boolean True whenever none of its operands
\* evaluates falsy, for lists of any length, one operand and the empty list
\* included.
C19_AndAllTruthyIsTrue ==
    (result.by = "evaluate" /\ call.json \in LogicExprs /\ OpOf(call.json) = "and"
        /\ OperandsThatAre(SlotsOf(call.json), FALSE) = {}) =>
        /\ result.out.ok
        /\ result.out.val = JBool(TRUE)

\* C20: 'or' on the empty operand list returns the boolean False, and 'or' on
\* a single operand returns that operand's evaluated value; neither fails.
C20_OrEmptyAndSingle ==
    (result.by = "evaluate" /\ call.json \in LogicExprs /\ OpOf(call.json) = "or"
        /\ Len(SlotsOf(call.json)) <= 1) =>
        LET list == SlotsOf(call.json)
        IN /\ result.out.ok
           /\ result.out.val = IF Len(list) = 0 THEN JBool(FALSE) ELSE SlotValue(list[1]).val

\* Loose equality as the specification words it: values of one type compare
\* natively, an int and a float by value, a boolean as 0 or 1, null equals
\* only null, a string and a number by the number the string is written as
\* (never equal when it is not a number), anything else natively.
AsNumber(value) == IF value.t = "bool" THEN JInt(IF value.v THEN 1 ELSE 0) ELSE value
LooseEq(left, right) ==
    LET str == IF left.t = "str" THEN left ELSE right
        num == IF left.t = "str" THEN right ELSE left
    IN CASE left.t = right.t -> PyEq(left, right)
         [] {left.t, right.t} = {"int", "float"} -> Tenths(left) = Tenths(right)
         [] "bool" \in {left.t, right.t} -> PyEq(AsNumber(left), AsNumber(right))
         [] "NoneType" \in {left.t, right.t} -> FALSE
         [] str.t = "str" /\ num.t \in {"int", "float"} ->
                str.v \in DOMAIN FloatOfStr /\ FloatOfStr[str.v] = Tenths(num)
         [] OTHER -> PyEq(left, right)

\* C21: '==' is loose equality: same-type values compare natively, int and
\* float by value, a boolean as 0 or 1, null equals only null, and a string
\* compared with a number is read as a number, the result being false when
\* it is not one.
C21_LooseEquality ==
    (result.by = "evaluate" /\ call.json \in EqExprs("==")) =>
        LET list == SlotsOf(call.json)
        IN /\ result.out.ok
           /\ result.out.val = JBool(LooseEq(list[1], list[2]))

\* Strict equality as the specification words it: a boolean equals only a
\* boolean, nothing is coerced, and values compare natively otherwise.
StrictEq(left, right) ==
    IF (left.t = "bool") # (right.t = "bool") THEN FALSE ELSE PyEq(left, right)

\* C22: '===' never reports a boolean equal to a non-boolean, coerces
\* nothing and compares natively otherwise; '!==' returns the negation of
\* '===' on every pair.
C22_StrictEquality ==
    (result.by = "evaluate" /\ call.json \in EqExprs("===") \cup EqExprs("!==")) =>
        LET list == SlotsOf(call.json)
        IN /\ result.out.ok
           /\ result.out.val = JBool(IF OpOf(call.json) = "==="
                                     THEN StrictEq(list[1], list[2])
                                     ELSE ~StrictEq(list[1], list[2]))

\* The relation rel holds for every adjacent pair of list, left to right.
HoldsPairwise(rel, list) ==
    \A i \in 1..(Len(list) - 1) : PyCompare(rel, list[i], list[i + 1]) = "true"

\* C23: '<', '<=', '>' and '>=' on a list of two or more numbers return true
\* exactly when the relation holds for every adjacent pair, for lists of any
\* length, and never fail because of the number of operands.
C23_ComparisonChains ==
    (result.by = "evaluate" /\ call.json \in CompareExprs) =>
        /\ result.out.ok
        /\ result.out.val = JBool(HoldsPairwise(OpOf(call.json), SlotsOf(call.json)))

\* The registry holds for every built-in operator the function the module
\* registered for it.
BuiltinsKept ==
    \A op \in DOMAIN Registered(Builtins) : _op_fns[op] = Registered(Builtins)[op]

\* What an expression evaluates to with data as its data, 'var' being what
\* its description says: the value its key locates, or null.
IsVar(json) == is_jsonlogic(json) /\ OpOf(json) = "var"
VarDenotes(data, json) ==
    IF IsVar(json) THEN Resolve(data, SlotsOf(json)[1]).val ELSE json
Denotes(data, path, json) ==
    LET list == SlotsOf(json)
    IN CASE IsVar(json) -> Return(VarDenotes(data, json))
         [] OpOf(json) \in {"+", "<"} /\ (\E i \in 1..Len(list) : IsVar(list[i])) ->
                Body(IF OpOf(json) = "+" THEN "op_add" ELSE "op_lt",
                     [i \in 1..Len(list) |-> VarDenotes(data, list[i])])
         [] OTHER -> _evaluate(data, path, json)

\* The evaluation of the first argument of the call, against the data of the
\* call.
ArrayArgument == maybe_evaluate(call.data, join_path(JSONPath_root, "0"), SlotsOf(call.json)[1])

\* What the second argument of the call evaluates to for each element of
\* the array, at the path of the slot 1 or of the slot the element's index
\* names.
ElementResults(enumerated) ==
    [i \in 1..Len(ArrayArgument.val.v) |->
        Denotes(ArrayArgument.val.v[i],
                join_path(JSONPath_root, IF enumerated THEN ToString(i - 1) ELSE "1"),
                SlotsOf(call.json)[2])]

\* C24: 'map' evaluates its first argument against the outer data; when that
\* is an array it returns an array of the same length whose i-th element is
\* the second argument evaluated with the i-th element as data, and when it
\* is not an array it fails with TypeError.
C24_Map ==
    (result.by = "evaluate" /\ call.json \in EachExprs("map") /\ BuiltinsKept
        /\ ArrayArgument.ok) =>
        IF ArrayArgument.val.t # "list"
        THEN ~result.out.ok /\ result.out.err.type = "TypeError"
        ELSE LET results == ElementResults(FALSE)
             IN (is_jsonlogic(SlotsOf(call.json)[2])
                    /\ \A i \in 1..Len(results) : results[i].ok) =>
                    /\ result.out.ok
                    /\ result.out.val = JArr([i \in 1..Len(results) |-> results[i].val])

\* The left fold of list from the element i on: fn evaluated against the
\* context {current, accumulator} gives the next accumulator.
RECURSIVE Fold(_, _, _, _)
Fold(list, fn, accumulator, i) ==
    IF ~accumulator.ok \/ i > Len(list)
    THEN accumulator
    ELSE Fold(list, fn,
              Denotes(Acc(list[i], accumulator.val), join_path(JSONPath_root, "1"), fn),
              i + 1)

\* The evaluation of the third argument of the call.
InitialArgument == maybe_evaluate(call.data, join_path(JSONPath_root, "2"), SlotsOf(call.json)[3])

\* C25: 'reduce' returns the left fold of its array: from the evaluated third
\* argument as accumulator, the second argument is evaluated for each element
\* in order against a context holding current and accumulator, and the value
\* after the last element is the result (the initial accumulator for an
\* empty array).
C25_ReduceIsLeftFold ==
    (result.by = "evaluate" /\ call.json \in ReduceExprs /\ BuiltinsKept
        /\ ArrayArgument.ok /\ ArrayArgument.val.t = "list" /\ InitialArgument.ok
        /\ is_jsonlogic(SlotsOf(call.json)[2])
        /\ Fold(ArrayArgument.val.v, SlotsOf(call.json)[2], InitialArgument, 1).ok) =>
            /\ result.out.ok
            /\ result.out.val =
                    Fold(ArrayArgument.val.v, SlotsOf(call.json)[2], InitialArgument, 1).val

\* The elements of the array of the call for which the predicate evaluates
\* truthy.
TruthyElements ==
    {i \in 1..Len(ArrayArgument.val.v) : Truthy(ElementResults(TRUE)[i].val)}

\* C26: over an array and a predicate applied to each element as data,
\* 'all' is true exactly when every result is truthy, 'none' when no result
\* is truthy and 'some' when at least one is: 'some' and 'none' give
\* opposite results on every array.
C26_AllNoneSome ==
    (result.by = "evaluate" /\ BuiltinsKept
        /\ call.json \in EachExprs("all") \cup EachExprs("none") \cup EachExprs("some")
        /\ ArrayArgument.ok /\ ArrayArgument.val.t = "list"
        /\ is_jsonlogic(SlotsOf(call.json)[2])
        /\ \A i \in 1..Len(ArrayArgument.val.v) : ElementResults(TRUE)[i].ok) =>
            /\ result.out.ok
            /\ result.out.val =
                    JBool(CASE OpOf(call.json) = "all" ->
                                    TruthyElements = 1..Len(ArrayArgument.val.v)
                            [] OpOf(call.json) = "none" -> TruthyElements = {}
                            [] OTHER -> TruthyElements # {})

\* C27: 'log' evaluates its single argument, emits exactly one record
\* holding the resolved value after whatever the argument itself logs, and
\* returns that value: a literal for a literal, 6 for {"+": [1, 2, 3]}.
C27_LogEvaluatesArgument ==
    (result.by = "evaluate" /\ call.json \in LogExprs /\ BuiltinsKept
        /\ SlotValue(SlotsOf(call.json)[1]).ok) =>
        LET resolved == SlotValue(SlotsOf(call.json)[1])
        IN /\ result.out.ok
           /\ result.out.val = resolved.val
           /\ result.out.log = resolved.log \o <<resolved.val>>

\* The steps that are an evaluation of the call's expression with the call's
\* data.
Evaluations == {"evaluate", "eval", "Evaluator.evaluate"}

SlotIndex == [segment \in {"0", "1", "2", "3", "4", "5", "6"} |->
                CASE segment = "0" -> 0 [] segment = "1" -> 1 [] segment = "2" -> 2
                  [] segment = "3" -> 3 [] segment = "4" -> 4 [] segment = "5" -> 5
                  [] OTHER -> 6]

\* The operator is registered with evaluate_args: the wrapper evaluates its
\* arguments, and names the operator in their paths.
Eager(op) == op \in DOMAIN _op_fns /\ _op_fns[op].evaluate_args

\* The expression the segments lead to from json, one argument index at a
\* time (after the operator's name under an eagerly evaluated operator);
\* null when they lead to none.
RECURSIVE ExprAt(_, _)
ExprAt(json, segments) ==
    IF segments = <<>>
    THEN json
    ELSE IF ~is_jsonlogic(json)
    THEN JNull
    ELSE LET rest == IF Eager(OpOf(json)) THEN Tail(segments) ELSE segments
         IN IF Eager(OpOf(json)) /\ segments[1] # OpOf(json)
            THEN JNull
            ELSE IF rest = <<>>
            THEN JNull
            ELSE IF rest[1] \notin DOMAIN SlotIndex
            THEN JNull
            ELSE IF SlotIndex[rest[1]] >= Len(SlotsOf(json))
            THEN JNull
            ELSE ExprAt(SlotsOf(json)[SlotIndex[rest[1]] + 1], Tail(rest))

\* C29: the evaluation of the argument slot i of an expression evaluated at
\* path p runs at p extended by the segment i, under eagerly evaluated
\* operators and under 'if', 'and', 'or', 'map', 'filter', 'reduce', 'all',
\* 'none' and 'some' alike: the path of every evaluation, a failing one
\* included, leads from the root to the expression evaluated.
C29_PathLeadsToExpression ==
    result.by = "evaluate" =>
        \A i \in 1..Len(result.out.evals) :
            ExprAt(call.json, Tail(result.out.evals[i].path)) = result.out.evals[i].jsonlogic

\* The call has returned or raised.
Finished == frames = <<>> /\ result.by = "evaluate"

\* The loops in progress have at most the slots of the expression and the
\* elements of its array to go through: a call of op_if for every two slots,
\* and in the other loops no more left than the expression and the array
\* hold.
Bounded ==
    frames # <<>> =>
        /\ 2 * Len(frames) <= Len(SlotsOf(call.json)) + 1
        /\ \A i \in 1..Len(frames) :
                Len(frames[i].args) <= Len(SlotsOf(call.json)) + 3

\* C30: every call of evaluate finishes, by returning a value or by raising:
\* the calls of op_if on the rest of its list, the loops of op_and and
\* op_or and the loops of the array operators over the elements take a
\* number of turns bounded by the expression and its array.
C30_EvaluateFinishes == []Bounded /\ <>Finished

\* An 'if' of three conditions, none truthy, has returned its result after
\* three calls of op_if.
C30_Witness ==
    /\ Finished /\ result.out.ok
    /\ call.json = Expr("if", JArr(<<JBool(FALSE), JStr("a"), JBool(FALSE), JStr("b"),
                                     JBool(FALSE), JStr("x"), JStr("foo")>>))

\* What the turns give is what evaluate gives.
TurnsGiveEvaluate ==
    Finished => SameResult(result.out, evaluate(call.data, call.json))

====
